---- MODULE Spec2Model ----
(***************************************************************************)
(* FusionCoPilot: the plan sanitizer (fusion_addin/sanitizer.py) and the   *)
(* transactional plan executor (fusion_addin/executor.py).                 *)
(*                                                                         *)
(* Python values are represented as follows.                               *)
(*   dict        a record holding exactly the keys that are present, so    *)
(*               `k in d` is  k \in DOMAIN d                                *)
(*   list        a sequence; a field that may hold a list or something     *)
(*               else is wrapped: [kind |-> "list", items |-> <<...>>]     *)
(*   number      an integer counting hundredths of a millimetre (or of     *)
(*               the given unit): 0.5 is 50, 25.4 is 2540                  *)
(*   non-dict    [nonobject |-> "None"], [nonobject |-> "str"]             *)
(***************************************************************************)
EXTENDS Integers, Sequences, FiniteSets, TLC

\* Longest operations list of the plans that are enumerated.
MaxLen == 3
\* Calls made on the one PlanExecutor, and on the one PlanSanitizer, in a behaviour.
MaxCalls == 2

--------------------------------------------------------------------------
(* Values *)

NonePlan == [nonobject |-> "None"]
StrPlan == [nonobject |-> "str"]
IsDict(v) == "nonobject" \notin DOMAIN v

\* A bare number, a {value, unit} dimension, the sanitizer's canonical
\* dimension, and a dict that is no dimension at all.
Num(v) == [kind |-> "num", value |-> v]
Dim(v, u) == [kind |-> "dim", value |-> v, unit |-> u]
Canon(v, ov, ou) ==
    [kind |-> "dim", value |-> v, unit |-> "mm", original_value |-> ov, original_unit |-> ou]
BadDim == [kind |-> "baddict"]

ListOf(s) == [kind |-> "list", items |-> s]
IntValue == [kind |-> "int"]

\* dict.get(key, default)
Get(d, k, default) == IF k \in DOMAIN d THEN d[k] ELSE default

\* str(i) for the list indices that occur (Python counts from 0).
IndexStr(i) == <<"0", "1", "2", "3", "4", "5">>[i]

RECURSIVE SeqsUpTo(_, _)
SeqsUpTo(S, n) ==
    IF n = 0 THEN {<<>>}
    ELSE LET shorter == SeqsUpTo(S, n - 1)
         IN shorter \cup {Append(s, x) : s \in {t \in shorter : Len(t) = n - 1}, x \in S}

--------------------------------------------------------------------------
(* State *)

VARIABLES
    \* executor.py: the build and the host document
    FUSION_AVAILABLE,   \* whether the adsk modules import (line 21-28)
    document,           \* the host design: sketches and features
    \* PlanExecutor fields
    current_plan,
    timeline_mapping,
    created_features,
    last_sketch,        \* 0: the attribute is not set
    last_profile,       \* [set, sketch, profile]
    \* one execute_plan call
    pc,                 \* Idle, TransactionOpen, OperationLoop, Raising, Committed, RolledBack
    op_index,           \* the loop's position in the operations list
    execution_results,  \* _execute_operations' results
    pending_exception,  \* the exception that is propagating
    transaction_log,    \* what TransactionContext did in this call
    entry_document,     \* the document when the transaction was entered
    dispatched,         \* indices handed to _execute_single_operation in this call
    exec_result,        \* what the last execute_plan call returned (or raised)
    calls,
    returned_results,   \* per call that returned: the result's collections, then and now
    \* PlanSanitizer fields
    sanitizer_settings,
    validation_errors,
    validation_warnings,
    \* the last sanitize_plan call: its arguments and what it returned (or raised)
    san_input,
    san_result,
    san_calls,
    returned_lists,     \* per call that returned: the message list, then and as it reads now
    \* what the last preview_plan_in_sandbox call returned (or raised)
    preview_result,
    \* main.py: the add-in's globals and the position of the running handler
    last_sanitized_plan,
    approved_plans,     \* the plans sanitize_plan returned with is_valid=true so far
    handler_pc          \* Idle, OfflineFallback, Execute

exec_vars == <<FUSION_AVAILABLE, document, current_plan, timeline_mapping,
               created_features, last_sketch, last_profile, pc, op_index,
               execution_results, pending_exception, transaction_log,
               entry_document, dispatched, exec_result, calls, returned_results>>

san_vars == <<sanitizer_settings, validation_errors, validation_warnings, san_input,
              san_result, san_calls, returned_lists>>

preview_vars == <<preview_result>>

addin_vars == <<last_sanitized_plan, approved_plans, handler_pc>>

vars == <<exec_vars, san_vars, preview_vars, addin_vars>>

--------------------------------------------------------------------------
(* executor.py: the plans given to execute_plan *)

\* str.startswith('CoPilot_') on the names that occur
StartsWithCoPilot(name) == name \in {"CoPilot_top", "CoPilot_base_sketch", "CoPilot_cube_sketch",
                                      "CoPilot_Sketch_op_1", "CoPilot_Sketch_op_2"}

\* A second sketch, under another name.
TopSketch == [op_id |-> "op_5", op |-> "create_sketch", params |-> [plane |-> "XY", name |-> "top"]]

ExecOperations == {
    TopSketch,
    [op_id |-> "op_1", op |-> "create_sketch", params |-> [plane |-> "XY", name |-> "base_sketch"]],
    [op_id |-> "op_2", op |-> "draw_rectangle",
     params |-> [width |-> Canon(10000, 10000, "mm"), height |-> Canon(5000, 5000, "mm")],
     target_ref |-> "base_sketch", dependencies |-> <<"op_3">>],
    [op_id |-> "op_3", op |-> "extrude", params |-> [distance |-> Canon(500, 500, "mm")]],
    [op_id |-> "op_4", op |-> "revolve", params |-> [angle |-> Num(36000)]],
    [op_id |-> "op_1", op |-> "fillet", params |-> [radius |-> BadDim]],
    [op |-> "create_sketch", params |-> [plane |-> "XY"]]
}

ExecPlans ==
    {NonePlan, StrPlan, [plan_id |-> "plan_1"],
     [plan_id |-> "plan_1", operations |-> IntValue]}
    \cup {[plan_id |-> "plan_1", operations |-> ListOf(s)] : s \in SeqsUpTo(ExecOperations, MaxLen)}

\* The documents the add-in may be started on.
EmptyDocument == [sketches |-> <<>>, features |-> <<>>]
InitialDocuments ==
    {EmptyDocument,
     [sketches |-> <<[name |-> "Sketch1", profiles |-> 1]>>, features |-> <<>>]}

NoException == [raised |-> FALSE]
NoResult == [returned |-> FALSE]
NoProfile == [set |-> FALSE]
NoMapping == [k \in {} |-> [token |-> "Timeline_Node", id |-> ""]]

--------------------------------------------------------------------------
(* executor.py: the operation handlers.  A handler is the set of outcomes   *)
(* it can have in a state: the host's answer to a mutation request and the  *)
(* token it hands back are the host's choice.                               *)

NoNode == [token |-> "None", id |-> ""]
\* uuid4()[:8] of _get_latest_timeline_node: opaque, drawn by the host.
Uuids == {"1f0a9c3e", "b7d2e045"}

ExtractFails(dimension) == dimension.kind \notin {"num", "dim"}
_extract_dimension_value(dimension) == dimension.value

HandlerState(doc, ls, lp) == [document |-> doc, last_sketch |-> ls, last_profile |-> lp]

Succeeded(feature, node, type, st) ==
    [ok |-> TRUE, why |-> "", feature_created |-> feature, timeline_node |-> node,
     feature_type |-> type, state |-> st]
Raised(why, st) ==
    [ok |-> FALSE, why |-> why, feature_created |-> "", timeline_node |-> NoNode,
     feature_type |-> "", state |-> st]

_get_latest_timeline_node == {[token |-> "Timeline_Node", id |-> u] : u \in Uuids}

_execute_create_sketch(fusion, op_id, params, st) ==
    IF fusion
    THEN LET given == Get(params, "name", "Sketch_" \o op_id)
             desired_name == IF StartsWithCoPilot(given) THEN given ELSE "CoPilot_" \o given
             sketch == [name |-> desired_name, profiles |-> 0]
             doc == [st.document EXCEPT !.sketches = Append(@, sketch)]
             after == HandlerState(doc, Len(doc.sketches), st.last_profile)
         IN {Raised("sketches.add failed", st)}
            \cup {Succeeded(desired_name, node, "sketch", after) : node \in _get_latest_timeline_node}
    ELSE {Succeeded(Get(params, "name", "Sketch_" \o op_id),
                    [token |-> "Timeline_Sketch", id |-> op_id], "sketch", st)}

\* The first sketch of the document named sketch_ref, else last_sketch (0: None).
_resolve_sketch_reference(sketch_ref, st) ==
    LET named == {n \in 1..Len(st.document.sketches) : st.document.sketches[n].name = sketch_ref}
    IN IF named # {} THEN CHOOSE n \in named : \A m \in named : n <= m
       ELSE st.last_sketch

\* The sketch a draw operation works on (0: none): target_ref, then
\* last_sketch, then the last sketch of the root component.
TargetSketch(has_ref, target_ref, st) ==
    LET by_ref == IF has_ref /\ target_ref # "" THEN _resolve_sketch_reference(target_ref, st) ELSE 0
        by_last == IF by_ref = 0 THEN st.last_sketch ELSE by_ref
    IN IF by_last = 0 THEN Len(st.document.sketches) ELSE by_last

\* Geometry added to sketch n closes one more profile; last_profile follows it.
AddProfile(n, st) ==
    LET doc == [st.document EXCEPT !.sketches[n].profiles = @ + 1]
    IN HandlerState(doc, st.last_sketch,
                    [set |-> TRUE, sketch |-> n, profile |-> doc.sketches[n].profiles])

_execute_draw_rectangle(fusion, op_id, params, has_ref, target_ref, st) ==
    LET width == Get(params, "width", Num(1000))
        height == Get(params, "height", Num(1000))
        sketch == TargetSketch(has_ref, target_ref, st)
        done(after) == Succeeded("Rectangle_" \o op_id, NoNode, "sketch_geometry", after)
    IN IF fusion /\ sketch = 0 THEN {Raised("No target sketch available for rectangle", st)}
       ELSE IF ExtractFails(width) \/ ExtractFails(height)
       THEN {Raised("Invalid dimension format", st)}
       ELSE IF fusion
       THEN {Raised("addTwoPointRectangle failed", st), done(AddProfile(sketch, st))}
       ELSE {done(st)}

_execute_draw_circle(fusion, op_id, params, has_ref, target_ref, st) ==
    LET sketch == TargetSketch(has_ref, target_ref, st)
        size == IF "radius" \in DOMAIN params THEN params.radius ELSE params.diameter
        done(after) == Succeeded("Circle_" \o op_id, NoNode, "sketch_geometry", after)
    IN IF fusion /\ sketch = 0 THEN {Raised("No target sketch available for circle", st)}
       ELSE IF {"radius", "diameter"} \cap DOMAIN params = {}
       THEN {Raised("Circle requires radius or diameter", st)}
       ELSE IF ExtractFails(size) THEN {Raised("Invalid dimension format", st)}
       ELSE IF fusion
       THEN {Raised("addByCenterRadius failed", st), done(AddProfile(sketch, st))}
       ELSE {done(st)}

_execute_draw_polygon(fusion, op_id, params, has_ref, target_ref, st) ==
    LET sketch == TargetSketch(has_ref, target_ref, st)
        radius == IF "circumscribed_radius" \in DOMAIN params THEN params.circumscribed_radius
                  ELSE IF "inscribed_radius" \in DOMAIN params THEN params.inscribed_radius
                  ELSE Get(params, "radius", Num(1000))
        done(after) == Succeeded("Polygon_" \o op_id, NoNode, "sketch_geometry", after)
    IN IF ~fusion THEN {done(st)}
       ELSE IF sketch = 0 THEN {Raised("No target sketch available for polygon", st)}
       ELSE IF ExtractFails(radius) THEN {Raised("Invalid dimension format", st)}
       ELSE {Raised("addByTwoPoints failed", st), done(AddProfile(sketch, st))}

_execute_extrude(fusion, op_id, params, st) ==
    LET distance == Get(params, "distance", Num(1000))
        from_sketch == st.last_sketch # 0 /\ st.document.sketches[st.last_sketch].profiles > 0
        profile == st.last_profile.set \/ from_sketch
        doc == [st.document EXCEPT !.features = Append(@, "CoPilot_Extrude_" \o op_id)]
        after == HandlerState(doc, st.last_sketch, st.last_profile)
    IN IF fusion /\ ~profile THEN {Raised("No profile available for extrude", st)}
       ELSE IF ExtractFails(distance) THEN {Raised("Invalid dimension format", st)}
       ELSE IF fusion
       THEN {Raised("extrudes.add failed", st)}
            \cup {Succeeded("Extrude_" \o op_id, node, "extrude", after) : node \in _get_latest_timeline_node}
       ELSE {Succeeded("Extrude_" \o op_id, [token |-> "Timeline_Extrude", id |-> op_id], "extrude", st)}

\* create_hole needs a face: the selected one, else one of the last body.
_execute_create_hole(fusion, op_id, params, st) ==
    LET diameter == Get(params, "diameter", Num(500))
        face_of_body == Len(st.document.features) > 0
        hole_sketch == [name |-> "CoPilot_HoleSketch_" \o op_id, profiles |-> 0]
        with_sketch == [st.document EXCEPT !.sketches = Append(@, hole_sketch)]
        drilled == [with_sketch EXCEPT !.features = Append(@, "CoPilot_Hole_" \o op_id)]
        on_face ==
            IF ExtractFails(diameter) THEN {Raised("Invalid dimension format", st)}
            ELSE {Raised("Failed to position hole", HandlerState(with_sketch, st.last_sketch, st.last_profile))}
                 \cup {Succeeded("Hole_" \o op_id, node, "hole",
                                 HandlerState(drilled, st.last_sketch, st.last_profile))
                       : node \in _get_latest_timeline_node}
    IN IF ~fusion
       THEN IF ExtractFails(diameter) THEN {Raised("Invalid dimension format", st)}
            ELSE {Succeeded("Hole_" \o op_id, [token |-> "Timeline_Hole", id |-> op_id], "hole", st)}
       ELSE IF face_of_body THEN on_face
       ELSE {Raised("Select a target face for the hole and try again.", st)} \cup on_face

\* fillet, chamfer, cut, shell and the patterns only read one dimension
\* (two for pattern_rectangular) and answer with a fixed token.
MockFeature(op_id, dimensions, name, type, st) ==
    IF \E d \in dimensions : ExtractFails(d) THEN {Raised("Invalid dimension format", st)}
    ELSE {Succeeded(name \o "_" \o op_id, [token |-> "Timeline_" \o name, id |-> op_id], type, st)}

_execute_single_operation(fusion, operation, st) ==
    IF "op" \notin DOMAIN operation THEN {Raised("'op'", st)}
    ELSE IF "op_id" \notin DOMAIN operation THEN {Raised("'op_id'", st)}
    ELSE IF "params" \notin DOMAIN operation THEN {Raised("'params'", st)}
    ELSE LET op_type == operation.op
             op_id == operation.op_id
             params == operation.params
             has_ref == "target_ref" \in DOMAIN operation
             target_ref == Get(operation, "target_ref", "")
             dim(key, default) == Get(params, key, Num(default))
         IN CASE op_type = "create_sketch" -> _execute_create_sketch(fusion, op_id, params, st)
              [] op_type = "draw_rectangle" ->
                    _execute_draw_rectangle(fusion, op_id, params, has_ref, target_ref, st)
              [] op_type = "draw_circle" ->
                    _execute_draw_circle(fusion, op_id, params, has_ref, target_ref, st)
              [] op_type = "draw_polygon" ->
                    _execute_draw_polygon(fusion, op_id, params, has_ref, target_ref, st)
              [] op_type = "extrude" -> _execute_extrude(fusion, op_id, params, st)
              [] op_type = "cut" -> MockFeature(op_id, {dim("distance", 500)}, "Cut", "cut", st)
              [] op_type = "fillet" -> MockFeature(op_id, {dim("radius", 200)}, "Fillet", "fillet", st)
              [] op_type = "chamfer" ->
                    MockFeature(op_id, {dim("distance", 100)}, "Chamfer", "chamfer", st)
              [] op_type = "create_hole" -> _execute_create_hole(fusion, op_id, params, st)
              [] op_type = "pattern_linear" ->
                    MockFeature(op_id, {dim("distance_1", 1000)}, "LinearPattern", "pattern_linear", st)
              [] op_type = "pattern_circular" ->
                    MockFeature(op_id, {Get(params, "angle", Dim(36000, "deg"))},
                                "CircularPattern", "pattern_circular", st)
              [] op_type = "pattern_rectangular" ->
                    MockFeature(op_id, {dim("distance_1", 1000), dim("distance_2", 1000)},
                                "RectangularPattern", "pattern_rectangular", st)
              [] op_type = "shell" -> MockFeature(op_id, {dim("thickness", 200)}, "Shell", "shell", st)
              [] OTHER -> {Raised("Unsupported operation type", st)}

--------------------------------------------------------------------------
(* executor.py: TransactionContext *)

\* __enter__ records nothing of the document: timeline_start stays None.
TransactionEnter(name) == <<"enter">>

\* commit() and rollback() log and leave the document as the handlers left it.
commit(doc) == doc
rollback(doc, at_entry) == doc

\* __exit__: rollback when an exception is leaving the block, commit otherwise.
\* A faulty __exit__ that commits whatever happened.
TransactionExit_AlwaysCommit(log, exc_raised) == Append(log, "commit")

TransactionExit(log, exc_raised) == Append(log, IF exc_raised THEN "rollback" ELSE "commit")

--------------------------------------------------------------------------
(* executor.py: PlanExecutor.execute_plan, one step per statement group *)

Operations(plan) == plan.operations.items

ExecInit ==
    /\ FUSION_AVAILABLE \in BOOLEAN
    /\ document \in (IF FUSION_AVAILABLE THEN InitialDocuments ELSE {EmptyDocument})
    /\ current_plan = NonePlan
    /\ timeline_mapping = NoMapping
    /\ created_features = <<>>
    /\ last_sketch = 0
    /\ last_profile = NoProfile
    /\ pc = "Idle"
    /\ op_index = 0
    /\ execution_results = <<>>
    /\ pending_exception = NoException
    /\ transaction_log = <<>>
    /\ entry_document = document
    /\ dispatched = <<>>
    /\ exec_result = NoResult
    /\ calls = 0
    /\ returned_results = <<>>
    /\ preview_result = NoResult

\* Lines 275-283 and 298-304: the collections a result carries.
Collections(result) ==
    IF result.success
    THEN [timeline_mapping |-> result.timeline_mapping,
          features_created |-> result.features_created]
    ELSE [partial_timeline_mapping |-> result.partial_timeline_mapping]

\* A faulty result that holds the executor's own dict and list.
HandedOver_Shared(result, results) ==
    [live |-> TRUE, returned |-> Collections(result), now |-> Collections(result),
     execution_results |-> results]

\* Lines 279-280 and 303: the result holds self.created_features.copy() and
\* self.timeline_mapping.copy(), objects of its own.
HandedOver(result, results) ==
    [live |-> FALSE, returned |-> Collections(result), now |-> Collections(result),
     execution_results |-> results]

\* What the results handed out so far read once the executor's collections
\* hold mapping and features: an object the executor still holds follows it.
ResultsAfter(results, mapping, features) ==
    [k \in 1..Len(results) |->
        IF ~results[k].live THEN results[k]
        ELSE IF "features_created" \in DOMAIN results[k].now
        THEN [results[k] EXCEPT !.now = [timeline_mapping |-> mapping,
                                         features_created |-> features]]
        ELSE [results[k] EXCEPT !.now = [partial_timeline_mapping |-> mapping]]]

\* The exception leaves the with block: __exit__ rolls back, and execute_plan's
\* handler will build the failure result from it.
RaiseInTransaction(type, who, why, doc) ==
    /\ pending_exception' = [raised |-> TRUE, type |-> type, who |-> who, why |-> why]
    /\ document' = rollback(doc, entry_document)
    /\ transaction_log' = TransactionExit(transaction_log, TRUE)
    /\ pc' = "RolledBack"

\* Lines 260-268: the call up to the open transaction.  plan.get() on a plan
\* that is no dict raises before the try block is entered.
ExecutePlanEnter(plan) ==
    /\ pc = "Idle"
    /\ calls < MaxCalls
    \* a later call re-submits the plan of the call before it
    /\ calls = 0 \/ current_plan = NonePlan \/ plan = current_plan
    /\ IF ~IsDict(plan)
       THEN /\ exec_result' = [returned |-> TRUE, raised |-> TRUE, exception |-> "AttributeError"]
            /\ calls' = calls + 1
            /\ UNCHANGED <<FUSION_AVAILABLE, document, current_plan, timeline_mapping,
                           created_features, last_sketch, last_profile, pc, op_index,
                           execution_results, pending_exception, transaction_log,
                           entry_document, dispatched, returned_results>>
       ELSE /\ current_plan' = plan
            /\ timeline_mapping' = NoMapping
            /\ created_features' = <<>>
            /\ returned_results' = ResultsAfter(returned_results, NoMapping, <<>>)
            /\ transaction_log' = TransactionEnter(Get(plan, "plan_id", "Unknown"))
            /\ entry_document' = document
            /\ pc' = "TransactionOpen"
            /\ op_index' = 0
            /\ execution_results' = <<>>
            /\ pending_exception' = NoException
            /\ dispatched' = <<>>
            /\ exec_result' = NoResult
            /\ UNCHANGED <<FUSION_AVAILABLE, document, last_sketch, last_profile, calls>>

\* Line 270 and the head of _execute_operations: plan['operations'] and
\* enumerate(operations).
ExecuteOperationsStart ==
    /\ pc = "TransactionOpen"
    /\ IF "operations" \notin DOMAIN current_plan
       THEN RaiseInTransaction("KeyError", "", "'operations'", document) /\ UNCHANGED op_index
       ELSE IF current_plan.operations.kind # "list"
       THEN RaiseInTransaction("TypeError", "", "'int' object is not iterable", document)
            /\ UNCHANGED op_index
       ELSE /\ pc' = "OperationLoop"
            /\ op_index' = 1
            /\ UNCHANGED <<document, pending_exception, transaction_log>>
    /\ UNCHANGED <<FUSION_AVAILABLE, current_plan, timeline_mapping,
                   created_features, last_sketch, last_profile, execution_results,
                   entry_document, dispatched, exec_result, calls, returned_results>>

\* Lines 318-319: the token is recorded under the operation's op_id.
\* A faulty line 318 that records the node without testing it.
RecordTimelineNode_Always(mapping, op_id, node) ==
    [k \in DOMAIN mapping \cup {op_id} |-> IF k = op_id THEN node ELSE mapping[k]]

RecordTimelineNode(mapping, op_id, node) ==
    IF node # NoNode
    THEN [k \in DOMAIN mapping \cup {op_id} |-> IF k = op_id THEN node ELSE mapping[k]]
    ELSE mapping

\* Lines 322-323.
RecordFeature(features, feature_created) ==
    IF feature_created # "" THEN Append(features, feature_created) ELSE features

\* enumerate(operations): the next element of the list.
\* A faulty loop that skips every other operation.
NextIndex_SkipOne(i) == i + 2

NextIndex(i) == i + 1

\* Lines 310-334: one iteration of the loop.
ExecuteOperation ==
    /\ pc = "OperationLoop"
    /\ op_index <= Len(Operations(current_plan))
    /\ LET operation == Operations(current_plan)[op_index]
           st == HandlerState(document, last_sketch, last_profile)
       IN \E result \in _execute_single_operation(FUSION_AVAILABLE, operation, st) :
            /\ dispatched' = Append(dispatched, op_index)
            /\ last_sketch' = result.state.last_sketch
            /\ last_profile' = result.state.last_profile
            /\ IF result.ok
               THEN /\ execution_results' = Append(execution_results,
                            [success |-> TRUE, operation_id |-> operation.op_id,
                             feature_created |-> result.feature_created,
                             timeline_node |-> result.timeline_node,
                             feature_type |-> result.feature_type])
                    /\ timeline_mapping' =
                            RecordTimelineNode(timeline_mapping, operation.op_id, result.timeline_node)
                    /\ created_features' = RecordFeature(created_features, result.feature_created)
                    /\ document' = result.state.document
                    /\ op_index' = NextIndex(op_index)
                    /\ UNCHANGED <<pc, pending_exception, transaction_log>>
               ELSE /\ execution_results' = Append(execution_results,
                            [success |-> FALSE,
                             operation_id |-> Get(operation, "op_id", "op_" \o IndexStr(op_index)),
                             feature_created |-> "", timeline_node |-> NoNode,
                             feature_type |-> ""])
                    /\ RaiseInTransaction("ExecutionError",
                                          Get(operation, "op_id", IndexStr(op_index)), result.why,
                                          result.state.document)
                    /\ UNCHANGED <<timeline_mapping, created_features, op_index>>
    /\ returned_results' = ResultsAfter(returned_results, timeline_mapping', created_features')
    /\ UNCHANGED <<FUSION_AVAILABLE, current_plan, entry_document, exec_result, calls>>

\* Lines 272-287 and __exit__ without an exception: the loop is over, the
\* result is built and the transaction commits.
TransactionCommit ==
    /\ pc = "OperationLoop"
    /\ op_index > Len(Operations(current_plan))
    /\ transaction_log' = TransactionExit(transaction_log, FALSE)
    /\ document' = commit(document)
    /\ pc' = "Committed"
    /\ UNCHANGED <<FUSION_AVAILABLE, current_plan, timeline_mapping, created_features,
                   last_sketch, last_profile, op_index, execution_results,
                   pending_exception, entry_document, dispatched, exec_result, calls,
                   returned_results>>

SuccessResult ==
    [returned |-> TRUE, raised |-> FALSE, success |-> TRUE,
     plan_id |-> Get(current_plan, "plan_id", "None"),
     operations_executed |-> Len(Operations(current_plan)),
     features_created |-> created_features,
     timeline_mapping |-> timeline_mapping,
     execution_results |-> execution_results]

FailureResult ==
    [returned |-> TRUE, raised |-> FALSE, success |-> FALSE,
     error_message |-> [who |-> pending_exception.who, why |-> pending_exception.why],
     plan_id |-> Get(current_plan, "plan_id", "None"),
     operations_attempted |->
        IF "operations" \in DOMAIN current_plan THEN Len(Operations(current_plan)) ELSE 0,
     partial_timeline_mapping |-> timeline_mapping]

\* Line 287 (return result) and lines 289-304 (except Exception): the handler
\* takes len(plan.get('operations', [])), which raises for a value without len.
ExecutePlanReturn ==
    /\ pc \in {"Committed", "RolledBack"}
    /\ exec_result' =
          IF pc = "Committed" THEN SuccessResult
          ELSE IF "operations" \in DOMAIN current_plan /\ current_plan.operations.kind # "list"
          THEN [returned |-> TRUE, raised |-> TRUE, exception |-> "TypeError"]
          ELSE FailureResult
    /\ pc' = "Idle"
    /\ calls' = calls + 1
    /\ returned_results' =
          IF exec_result'.raised THEN returned_results
          ELSE Append(returned_results, HandedOver(exec_result', execution_results))
    /\ UNCHANGED <<FUSION_AVAILABLE, document, current_plan, timeline_mapping, created_features,
                   last_sketch, last_profile, op_index, execution_results,
                   pending_exception, transaction_log, entry_document, dispatched>>

ExecNext ==
    \/ \E plan \in ExecPlans : ExecutePlanEnter(plan) /\ UNCHANGED <<san_vars, preview_vars, addin_vars>>
    \/ ExecuteOperationsStart /\ UNCHANGED <<san_vars, preview_vars, addin_vars>>
    \/ ExecuteOperation /\ UNCHANGED <<san_vars, preview_vars, addin_vars>>
    \/ TransactionCommit /\ UNCHANGED <<san_vars, preview_vars, addin_vars>>
    \/ ExecutePlanReturn /\ UNCHANGED <<san_vars, preview_vars, addin_vars>>

--------------------------------------------------------------------------
(* executor.py: PlanExecutor.preview_plan_in_sandbox *)

\* The plans given to preview_plan_in_sandbox: no dict, operations that is no
\* list, a list whose second element has no 'op', and a list that executes.
PreviewPlans ==
    {NonePlan,
     [plan_id |-> "plan_1", operations |-> IntValue],
     [plan_id |-> "plan_1",
      operations |-> ListOf(<<[op_id |-> "op_1", op |-> "create_sketch",
                               params |-> [plane |-> "XY", name |-> "base_sketch"]],
                              [op_id |-> "op_2", params |-> [distance |-> Num(500)]]>>)],
     [plan_id |-> "plan_1",
      operations |-> ListOf(<<[op_id |-> "op_1", op |-> "create_sketch",
                               params |-> [plane |-> "XY", name |-> "base_sketch"]],
                              [op_id |-> "op_2", op |-> "draw_rectangle",
                               params |-> [width |-> Canon(10000, 10000, "mm"),
                                           height |-> Canon(5000, 5000, "mm")],
                               target_ref |-> "base_sketch"],
                              [op_id |-> "op_3", op |-> "extrude",
                               params |-> [distance |-> Canon(500, 500, "mm")]]>>)]}

\* Lines 890-904: the estimated feature of one operation, or a raise.
EstimatedFeature(operation) ==
    IF "op" \notin DOMAIN operation
    THEN [raises |-> TRUE, why |-> "'NoneType' object has no attribute 'title'"]
    ELSE IF operation.op = "create_sketch"
    THEN [raises |-> FALSE, feature |-> "Sketch",
          name |-> Get(Get(operation, "params", [plane |-> "XY"]), "name", "Unnamed")]
    ELSE IF operation.op \in {"extrude", "cut", "create_hole"}
    THEN LET key == IF operation.op = "create_hole" THEN "diameter" ELSE "distance"
             dimension == Get(Get(operation, "params", [plane |-> "XY"]), key, Num(0))
         IN IF ExtractFails(dimension)
            THEN [raises |-> TRUE, why |-> "Invalid dimension format"]
            ELSE [raises |-> FALSE, feature |-> operation.op,
                  mm |-> _extract_dimension_value(dimension)]
    ELSE [raises |-> FALSE, feature |-> operation.op]

\* Lines 877-906: the preview data, or the exception that leaves the function.
_mock_preview_execution(plan) ==
    LET operations == Get(plan, "operations", ListOf(<<>>))
    IN IF operations.kind # "list"
       THEN [raises |-> TRUE, why |-> "object of type 'int' has no len()"]
       ELSE LET estimated == [j \in 1..Len(operations.items) |->
                                 EstimatedFeature(operations.items[j])]
                failing == {j \in 1..Len(estimated) : estimated[j].raises}
            IN IF failing # {}
               THEN [raises |-> TRUE, why |-> estimated[CHOOSE j \in failing :
                                                 \A k \in failing : j <= k].why]
               ELSE [raises |-> FALSE,
                     operations_previewed |-> Len(operations.items),
                     estimated_features |-> estimated]

\* Lines 190-246: what the caller of preview_plan_in_sandbox gets; it is
\* stamped with the number of execute_plan calls made before it.
PreviewResult(plan, preview_data) ==
    IF preview_data.raises
    THEN [returned |-> TRUE, raised |-> FALSE, success |-> FALSE, error |-> preview_data.why,
          after_calls |-> calls]
    ELSE [returned |-> TRUE, raised |-> FALSE, success |-> TRUE, preview_data |-> preview_data,
          operations_count |-> preview_data.operations_previewed, after_calls |-> calls]

\* A faulty preview that resets the execution state as execute_plan does.
PreviewPlanInSandbox_ClearsState(plan) ==
    /\ pc = "Idle"
    /\ IsDict(plan)
    /\ preview_result' = PreviewResult(plan, _mock_preview_execution(plan))
    /\ timeline_mapping' = NoMapping
    /\ created_features' = <<>>
    /\ UNCHANGED <<FUSION_AVAILABLE, document, current_plan, last_sketch, last_profile, pc,
                   op_index, execution_results, pending_exception, transaction_log,
                   entry_document, dispatched, exec_result, calls, returned_results,
                   san_vars>>

\* Lines 177-246.  No execute_plan call is active (single-writer discipline).
\* In both builds the preview is _mock_preview_execution; plan.get() at line
\* 190 raises for a plan that is no dict.
PreviewPlanInSandbox(plan) ==
    /\ pc = "Idle"
    /\ preview_result' =
          IF ~IsDict(plan)
          THEN [returned |-> TRUE, raised |-> TRUE, exception |-> "AttributeError",
                after_calls |-> calls]
          ELSE PreviewResult(plan, _mock_preview_execution(plan))
    /\ UNCHANGED <<exec_vars, san_vars>>

\* Previews between the execute_plan calls, on the same plans.
PreviewNext ==
    \/ \E plan \in PreviewPlans : PreviewPlanInSandbox(plan) /\ UNCHANGED addin_vars
    \/ \E plan \in PreviewPlans : ExecutePlanEnter(plan) /\ UNCHANGED <<san_vars, preview_vars, addin_vars>>
    \/ ExecuteOperationsStart /\ UNCHANGED <<san_vars, preview_vars, addin_vars>>
    \/ ExecuteOperation /\ UNCHANGED <<san_vars, preview_vars, addin_vars>>
    \/ TransactionCommit /\ UNCHANGED <<san_vars, preview_vars, addin_vars>>
    \/ ExecutePlanReturn /\ UNCHANGED <<san_vars, preview_vars, addin_vars>>


--------------------------------------------------------------------------
(* sanitizer.py: configuration, messages and the plans given to sanitize_plan *)

\* _default_machine_profile, in hundredths of a millimetre.
min_tool_diameter == 50
max_cut_depth == 10000
min_wall_thickness == 80
max_feature_size == 100000
\* settings.get('max_operations_per_plan', 50), settings.get('max_execution_time', 300)
DefaultMaxOperations == 50
DefaultMaxExecutionTime == 300
\* The prompt is kept by its length; more than 2000 characters are cut.
MaxPromptLength == 2000
\* _sanitize_edge_params' and _validate_geometric_feasibility's fillet limits
LargeFilletRadius == 5000
VeryLargeFilletRadius == 10000
LargePatternCount == 100

\* A faulty table that takes an inch for a centimetre.
unit_conversions_InchAsCm ==
    [u \in {"mm", "cm", "m", "in", "ft", "deg", "rad"} |->
        CASE u = "mm" -> 10 [] u = "cm" -> 100 [] u = "m" -> 10000 [] u = "in" -> 100
          [] u = "ft" -> 3048 [] u = "deg" -> 10 [] u = "rad" -> 573]

\* unit_conversions, each factor times ten (rad is 180/pi, rounded).
unit_conversions ==
    [u \in {"mm", "cm", "m", "in", "ft", "deg", "rad"} |->
        CASE u = "mm" -> 10 [] u = "cm" -> 100 [] u = "m" -> 10000 [] u = "in" -> 254
          [] u = "ft" -> 3048 [] u = "deg" -> 10 [] u = "rad" -> 573]

\* A message with the bucket it was recorded in: where is the prefix
\* ("Operation 0", "Internal sanitization error"), about the name it quotes.
Message(level, where, text, about) ==
    [level |-> level, where |-> where, text |-> text, about |-> about]
Error(where, text, about) == Message("ERROR", where, text, about)
Warning(where, text, about) == Message("WARNING", where, text, about)

\* re.match(r'^op_\d+$', op_id) on the ids that occur
MatchesOpIdPattern(op_id) ==
    op_id \in {"op_1", "op_2", "op_3", "op_4", "op_5", "op_6", "op_7", "op_8", "op_9", "op_10",
               "op_11", "op_12", "op_13", "op_14", "op_15", "op_16", "op_99"}
\* the five patterns of _validate_target_reference on the references that occur
MatchesReferencePattern(target_ref) == target_ref \in {"sketch_1", "sketch_base", "face_top"}

_get_valid_operations ==
    {"create_sketch", "draw_line", "draw_circle", "draw_rectangle", "draw_polygon",
     "draw_arc", "draw_spline", "extrude", "cut", "revolve", "sweep", "loft", "fillet",
     "chamfer", "shell", "mirror", "pattern_linear", "pattern_circular",
     "pattern_rectangular", "pattern_path", "create_plane", "create_axis", "create_point",
     "set_dimension", "add_constraint", "rename_feature", "create_component",
     "create_joint", "create_hole", "thread_hole", "countersink_hole", "counterbore_hole"}

\* The parameters whose value is a number or a dimension in this model.
DimensionKeys ==
    {"width", "height", "length", "diameter", "radius", "distance", "thickness",
     "distance_1", "distance_2", "spacing", "angle"}

\* A hole of 0.1 mm, below min_tool_diameter.
SubMinimumHole == [op_id |-> "op_6", op |-> "create_hole", params |-> [diameter |-> Dim(10, "mm")]]

\* 2.5 cm by 0.1 m by 1 ft.
MixedUnitsRectangle ==
    [op_id |-> "op_7", op |-> "draw_rectangle",
     params |-> [width |-> Dim(250, "cm"), height |-> Dim(10, "m"), length |-> Dim(100, "ft")]]
UnknownUnitCircle == [op_id |-> "op_8", op |-> "draw_circle", params |-> [radius |-> Dim(500, "px")]]
\* A 0.1 mm diameter with a radius of -5.
NegativeRadiusHole ==
    [op_id |-> "op_9", op |-> "create_hole",
     params |-> [diameter |-> Dim(10, "mm"), radius |-> Num(-500)]]
FiftyMetreRectangle ==
    [op_id |-> "op_10", op |-> "draw_rectangle",
     params |-> [width |-> Dim(5000, "m"), height |-> Dim(1000, "mm")]]
\* The rectangle of test_valid_simple_plan: it names the sketch of op_1.
NamedSketchRectangle ==
    [op_id |-> "op_11", op |-> "draw_rectangle",
     params |-> [width |-> Dim(5000, "mm"), height |-> Dim(5000, "mm")],
     target_ref |-> "base_sketch", dependencies |-> <<"op_1">>]
\* A count of 0 and a distance of -1 mm.
BadPattern ==
    [op_id |-> "op_12", op |-> "pattern_linear",
     params |-> [count_1 |-> [kind |-> "int", value |-> 0], distance_1 |-> Dim(-100, "mm")]]
Revolve == [op_id |-> "op_13", op |-> "revolve", params |-> [angle |-> Dim(36000, "deg")]]
\* 150 mm, above max_cut_depth, in a direction that does not exist.
DeepSidewaysExtrude ==
    [op_id |-> "op_14", op |-> "extrude",
     params |-> [distance |-> Dim(15000, "mm"), direction |-> "sideways"]]
\* BadPattern's parameters on a rectangular pattern.
BadRectangularPattern ==
    [op_id |-> "op_15", op |-> "pattern_rectangular",
     params |-> [count_1 |-> [kind |-> "int", value |-> 0], distance_1 |-> Dim(-100, "mm")]]
ZeroExtrude == [op_id |-> "op_16", op |-> "extrude", params |-> [distance |-> Dim(0, "mm")]]

SanOperations == {
    [op_id |-> "op_1", op |-> "create_sketch", params |-> [plane |-> "XY", name |-> "base_sketch"]],
    [op_id |-> "op_2", op |-> "draw_rectangle",
     params |-> [width |-> Dim(200, "in"), height |-> Dim(5000, "mm")],
     target_ref |-> "sketch_1", dependencies |-> <<"op_1">>],
    [op_id |-> "op_3", op |-> "create_hole", params |-> [diameter |-> Dim(30, "in")]],
    [op_id |-> "op_4", op |-> "create_sketch", dependencies |-> <<"op_99">>],
    [op_id |-> "op_5", op |-> "extrude",
     params |-> [distance |-> Dim(500, "mm"), direction |-> "positive"]],
    [op_id |-> "step_6", op |-> "draw_circle", params |-> [radius |-> Num(1000)]],
    SubMinimumHole,
    MixedUnitsRectangle,
    UnknownUnitCircle,
    NegativeRadiusHole,
    FiftyMetreRectangle,
    NamedSketchRectangle,
    BadPattern,
    Revolve,
    DeepSidewaysExtrude,
    BadRectangularPattern,
    ZeroExtrude
}

Metadatas == {
    [natural_language_prompt |-> 40],
    [created_at |-> "2024-01-15T10:30:00Z", units |-> "furlong", confidence_score |-> 150,
     natural_language_prompt |-> 2500, estimated_duration_seconds |-> 400]
}

SanPlans ==
    {NonePlan, StrPlan,
     [plan_id |-> "plan_1", metadata |-> [natural_language_prompt |-> 40]],
     [plan_id |-> "plan_1", operations |-> ListOf(<<>>)],
     [metadata |-> [natural_language_prompt |-> 40], operations |-> ListOf(<<>>)],
     [plan_id |-> "plan_1", metadata |-> [natural_language_prompt |-> 40],
      operations |-> IntValue]}
    \cup {[plan_id |-> "plan_1", metadata |-> m, operations |-> ListOf(s)] :
             m \in Metadatas, s \in SeqsUpTo(SanOperations, MaxLen)}

\* The settings a PlanSanitizer is constructed with.
Settings == {[units_default |-> "mm"], [units_default |-> "mm", max_operations_per_plan |-> 2]}

--------------------------------------------------------------------------
(* sanitizer.py: the stages.  A raise is a result [raised |-> TRUE, ...].   *)

NoMessage == [level |-> "NONE"]

\* A faulty structure check that lets an empty operations list through.
_validate_plan_structure_NoEmptyCheck(plan, settings) ==
    LET missing == {f \in {"plan_id", "metadata", "operations"} : f \notin DOMAIN plan}
        first == IF "plan_id" \in missing THEN "plan_id"
                 ELSE IF "metadata" \in missing THEN "metadata" ELSE "operations"
        limit == Get(settings, "max_operations_per_plan", DefaultMaxOperations)
    IN IF missing # {} THEN Error("", "Missing required field", first)
       ELSE IF plan.operations.kind # "list" THEN Error("", "Operations must be a list", "")
       ELSE IF Len(plan.operations.items) > limit
       THEN Error("", "Plan exceeds maximum operations limit", "")
       ELSE NoMessage

\* Lines 137-153: the ValidationError that is raised, or NoMessage.
_validate_plan_structure(plan, settings) ==
    LET missing == {f \in {"plan_id", "metadata", "operations"} : f \notin DOMAIN plan}
        first == IF "plan_id" \in missing THEN "plan_id"
                 ELSE IF "metadata" \in missing THEN "metadata" ELSE "operations"
        limit == Get(settings, "max_operations_per_plan", DefaultMaxOperations)
    IN IF missing # {} THEN Error("", "Missing required field", first)
       ELSE IF plan.operations.kind # "list" THEN Error("", "Operations must be a list", "")
       ELSE IF Len(plan.operations.items) = 0
       THEN Error("", "Plan must contain at least one operation", "")
       ELSE IF Len(plan.operations.items) > limit
       THEN Error("", "Plan exceeds maximum operations limit", "")
       ELSE NoMessage

\* Lines 155-188: the normalized metadata and the warnings, in order.
_sanitize_metadata(metadata, settings) ==
    LET units == Get(metadata, "units", Get(settings, "units_default", "mm"))
        bad_units == units \notin DOMAIN unit_conversions
        has_score == "confidence_score" \in DOMAIN metadata
        bad_score == has_score /\ ~(0 <= metadata.confidence_score /\ metadata.confidence_score <= 100)
        clamped == IF metadata.confidence_score < 0 THEN 0 ELSE 100
        prompt == Get(metadata, "natural_language_prompt", 0)
        long_prompt == prompt > MaxPromptLength
        keys == DOMAIN metadata \cup {"created_at", "units"}
                  \cup (IF long_prompt THEN {"natural_language_prompt"} ELSE {})
        normalized ==
            [k \in keys |->
                CASE k = "created_at" -> Get(metadata, "created_at", "utcnow")
                  [] k = "units" -> IF bad_units THEN "mm" ELSE units
                  [] k = "confidence_score" -> IF bad_score THEN clamped ELSE metadata[k]
                  [] k = "natural_language_prompt" ->
                        IF long_prompt THEN MaxPromptLength ELSE metadata[k]
                  [] OTHER -> metadata[k]]
    IN [metadata |-> normalized,
        warnings |->
            (IF bad_units THEN <<Warning("", "Unknown unit, defaulting to mm", units)>> ELSE <<>>)
            \o (IF bad_score THEN <<Warning("", "Invalid confidence score, clamping to [0,1]", "")>>
                ELSE <<>>)
            \o (IF long_prompt THEN <<Warning("", "Prompt truncated to 2000 characters", "")>>
                ELSE <<>>)]

\* The outcome of a parameter rule: it returns, or raises at one of two levels.
Passes == [raises |-> "no", text |-> "", about |-> ""]
RaisesError(text, about) == [raises |-> "ValidationError", text |-> text, about |-> about]
RaisesWarning(text, about) == [raises |-> "ValidationWarning", text |-> text, about |-> about]

\* Run the checks in order: the first that raises ends the rule.
RECURSIVE FirstRaise(_)
FirstRaise(checks) ==
    IF checks = <<>> THEN Passes
    ELSE IF Head(checks).raises # "no" THEN Head(checks)
    ELSE FirstRaise(Tail(checks))

\* _extract_dimension_value followed by a positivity test (value <= 0 raises).
Positive(params, key, text) ==
    IF key \notin DOMAIN params THEN Passes
    ELSE IF ExtractFails(params[key]) THEN RaisesError("Invalid dimension format", key)
    ELSE IF _extract_dimension_value(params[key]) <= 0 THEN RaisesError(text, key)
    ELSE Passes

\* A limit test on a value known to extract.
Below(params, key, limit, outcome) ==
    IF key \in DOMAIN params /\ ~ExtractFails(params[key])
       /\ _extract_dimension_value(params[key]) < limit THEN outcome ELSE Passes
Above(params, key, limit, outcome) ==
    IF key \in DOMAIN params /\ ~ExtractFails(params[key])
       /\ _extract_dimension_value(params[key]) > limit THEN outcome ELSE Passes

_sanitize_circular_params(params) ==
    FirstRaise(<<Positive(params, "diameter", "Diameter must be positive"),
                 Below(params, "diameter", min_tool_diameter,
                       RaisesWarning("Diameter below minimum tool diameter", "diameter")),
                 Positive(params, "radius", "Radius must be positive")>>)

_sanitize_rectangular_params(params) ==
    LET rule(dim) ==
            <<Positive(params, dim, "must be positive"),
              Above(params, dim, max_feature_size,
                    RaisesError("exceeds maximum feature size", dim))>>
    IN FirstRaise(rule("width") \o rule("height") \o rule("length"))

_sanitize_extrude_params(params) ==
    FirstRaise(<<Positive(params, "distance", "Extrude distance must be positive"),
                 Above(params, "distance", max_cut_depth,
                       RaisesWarning("Extrude distance exceeds recommended maximum", "distance")),
                 IF "direction" \in DOMAIN params
                    /\ params.direction \notin {"positive", "negative", "symmetric"}
                 THEN RaisesError("Invalid direction", "direction") ELSE Passes>>)

_sanitize_edge_params(params) ==
    FirstRaise(<<Positive(params, "radius", "Fillet/chamfer radius must be positive"),
                 Above(params, "radius", LargeFilletRadius,
                       RaisesWarning("Large fillet radius may cause geometric issues", "radius"))>>)

_sanitize_shell_params(params) ==
    FirstRaise(<<Positive(params, "thickness", "Shell thickness must be positive"),
                 Below(params, "thickness", min_wall_thickness,
                       RaisesWarning("Shell thickness below minimum wall thickness", "thickness"))>>)

\* A count is [kind |-> "int", value |-> n] or a value that is no int.
_sanitize_pattern_params(params) ==
    LET count(key) ==
            IF key \notin DOMAIN params THEN <<>>
            ELSE <<IF params[key].kind # "int" \/ params[key].value < 1
                   THEN RaisesError("must be a positive integer", key) ELSE Passes,
                   IF params[key].kind = "int" /\ params[key].value > LargePatternCount
                   THEN RaisesWarning("Large pattern count may impact performance", key)
                   ELSE Passes>>
        dist(key) == <<Positive(params, key, "must be positive")>>
    IN FirstRaise(count("count_1") \o count("count_2") \o count("count")
                  \o dist("distance_1") \o dist("distance_2") \o dist("spacing"))

\* Lines 388-408: the canonical dimension, and whether the unit was unknown.
_convert_dimension(dimension) ==
    LET known == dimension.unit \in DOMAIN unit_conversions
        unit == IF known THEN dimension.unit ELSE "mm"
    IN Canon((dimension.value * unit_conversions[unit]) \div 10, dimension.value, unit)

IsDimension(params, key) ==
    key \in DimensionKeys /\ params[key].kind = "dim" /\ "unit" \in DOMAIN params[key]

\* Lines 372-386.
_convert_dimensional_params(params) ==
    [key \in DOMAIN params |->
        IF IsDimension(params, key) THEN _convert_dimension(params[key]) ELSE params[key]]

\* The unknown-unit warnings _convert_dimension appends, in the dict's key order.
RECURSIVE UnknownUnitWarnings(_, _)
UnknownUnitWarnings(params, keys) ==
    IF keys = {} THEN <<>>
    ELSE LET key == CHOOSE k \in keys : TRUE
             rest == UnknownUnitWarnings(params, keys \ {key})
         IN IF IsDimension(params, key) /\ params[key].unit \notin DOMAIN unit_conversions
            THEN <<Warning("", "Unknown unit, treating as mm", params[key].unit)>> \o rest
            ELSE rest

\* Lines 234-255: the rule of the operation type, then the conversion.
ParamsRule(op_type, params) ==
    CASE op_type \in {"draw_circle", "create_hole"} -> _sanitize_circular_params(params)
      [] op_type = "draw_rectangle" -> _sanitize_rectangular_params(params)
      [] op_type \in {"extrude", "cut"} -> _sanitize_extrude_params(params)
      [] op_type \in {"fillet", "chamfer"} -> _sanitize_edge_params(params)
      [] op_type = "shell" -> _sanitize_shell_params(params)
      [] op_type \in {"pattern_linear", "pattern_circular"} -> _sanitize_pattern_params(params)
      [] OTHER -> Passes

ConvertUnlessRaised(rule, params) ==
    IF rule.raises # "no" THEN [outcome |-> rule, params |-> params, warnings |-> <<>>]
    ELSE [outcome |-> Passes, params |-> _convert_dimensional_params(params),
          warnings |-> UnknownUnitWarnings(params, DOMAIN params)]

_sanitize_operation_params(op_type, params) ==
    ConvertUnlessRaised(ParamsRule(op_type, params), params)

\* Lines 487-501.
_validate_target_reference(operation) ==
    IF "target_ref" \in DOMAIN operation /\ ~MatchesReferencePattern(operation.target_ref)
    THEN <<Warning("", "Unusual target reference format", operation.target_ref)>>
    ELSE <<>>

\* Lines 206-232: what the call raises (or not), the operation it returns and
\* the warnings it appended on the way.
OperationFails(operation, outcome) == [outcome |-> outcome, op |-> operation, warnings |-> <<>>]

\* Lines 223-230: the sanitized params replace the operation's, then the reference check.
WithSanitizedParams(operation, p) ==
    IF p.outcome.raises # "no" THEN OperationFails(operation, p.outcome)
    ELSE [outcome |-> Passes,
          op |-> [operation EXCEPT !.params = p.params],
          warnings |-> p.warnings \o _validate_target_reference(operation)]

_sanitize_single_operation(operation) ==
    IF "op_id" \notin DOMAIN operation
    THEN OperationFails(operation, RaisesError("Missing required field", "op_id"))
    ELSE IF "op" \notin DOMAIN operation
    THEN OperationFails(operation, RaisesError("Missing required field", "op"))
    ELSE IF "params" \notin DOMAIN operation
    THEN OperationFails(operation, RaisesError("Missing required field", "params"))
    ELSE IF ~MatchesOpIdPattern(operation.op_id)
    THEN OperationFails(operation, RaisesError("Invalid op_id format", operation.op_id))
    ELSE IF operation.op \notin _get_valid_operations
    THEN OperationFails(operation, RaisesError("Unknown operation type", operation.op))
    ELSE WithSanitizedParams(operation,
                             _sanitize_operation_params(operation.op, operation.params))

\* Lines 190-204: the operations kept and what the loop appended to the two
\* buckets.  An operation that raised ValidationWarning is kept as it came.
\* A faulty loop body that drops an operation that raised ValidationWarning.
SanitizeLoopBody_DropWarned(operation, where, one, rest) ==
    CASE one.outcome.raises = "ValidationError" ->
            [rest EXCEPT !.errors = <<Error(where, one.outcome.text, one.outcome.about)>> \o @]
      [] one.outcome.raises = "ValidationWarning" ->
            [rest EXCEPT !.warnings = <<Warning(where, one.outcome.text, one.outcome.about)>> \o @]
      [] OTHER -> [rest EXCEPT !.ops = <<one.op>> \o @, !.warnings = one.warnings \o @]

\* Lines 195-202, one turn of the loop: `one` is the outcome for the operation,
\* `rest` what the later turns add.
SanitizeLoopBody(operation, where, one, rest) ==
    CASE one.outcome.raises = "ValidationError" ->
            [rest EXCEPT !.errors = <<Error(where, one.outcome.text, one.outcome.about)>> \o @]
      [] one.outcome.raises = "ValidationWarning" ->
            [rest EXCEPT !.ops = <<operation>> \o @,
                         !.warnings = <<Warning(where, one.outcome.text, one.outcome.about)>> \o @]
      [] OTHER -> [rest EXCEPT !.ops = <<one.op>> \o @, !.warnings = one.warnings \o @]

RECURSIVE _sanitize_operations(_, _)
_sanitize_operations(operations, i) ==
    IF i > Len(operations) THEN [ops |-> <<>>, errors |-> <<>>, warnings |-> <<>>]
    ELSE SanitizeLoopBody(operations[i], "Operation " \o IndexStr(i),
                          _sanitize_single_operation(operations[i]),
                          _sanitize_operations(operations, i + 1))

\* Messages of a per-operation check, in list order.
RECURSIVE Flatten(_)
Flatten(lists) == IF lists = <<>> THEN <<>> ELSE Head(lists) \o Flatten(Tail(lists))
ForEach(operations, check(_)) == Flatten([j \in 1..Len(operations) |-> check(operations[j])])

\* Lines 420-431.
_validate_operation_dependencies(operations) ==
    LET op_ids == {operations[j].op_id : j \in 1..Len(operations)}
        missing(op) ==
            IF "dependencies" \notin DOMAIN op THEN <<>>
            ELSE LET deps == op.dependencies
                     absent == SelectSeq(deps, LAMBDA d : d \notin op_ids)
                 IN [j \in 1..Len(absent) |->
                        Error(op.op_id, "depends on non-existent operation", absent[j])]
    IN ForEach(operations, missing)

\* Lines 433-455.  The distance or radius is read with _extract_dimension_value,
\* which raises for a value that is no dimension.
GeometricFeasibilityRaises(operations) ==
    \E j \in 1..Len(operations) :
        \/ operations[j].op = "extrude" /\ ExtractFails(Get(operations[j].params, "distance", Num(0)))
        \/ operations[j].op = "fillet" /\ ExtractFails(Get(operations[j].params, "radius", Num(0)))

_validate_geometric_feasibility(operations) ==
    LET check(op) ==
            IF op.op = "extrude"
               /\ _extract_dimension_value(Get(op.params, "distance", Num(0))) = 0
            THEN <<Warning("", "Zero-distance extrude in operation", op.op_id)>>
            ELSE IF op.op = "fillet"
               /\ _extract_dimension_value(Get(op.params, "radius", Num(0))) > VeryLargeFilletRadius
            THEN <<Warning("", "Very large fillet radius in operation", op.op_id)>>
            ELSE <<>>
    IN ForEach(operations, check)

\* Lines 457-485.
ManufacturingConstraintsRaise(operations) ==
    \E j \in 1..Len(operations) :
        \/ /\ operations[j].op \in {"create_hole", "draw_circle"}
           /\ "diameter" \in DOMAIN operations[j].params
           /\ ExtractFails(operations[j].params.diameter)
        \/ /\ operations[j].op \in {"extrude", "cut"}
           /\ "distance" \in DOMAIN operations[j].params
           /\ ExtractFails(operations[j].params.distance)

_validate_manufacturing_constraints(operations) ==
    LET check(op) ==
            IF op.op \in {"create_hole", "draw_circle"} /\ "diameter" \in DOMAIN op.params
               /\ _extract_dimension_value(op.params.diameter) < min_tool_diameter
            THEN <<Warning("", "Hole diameter smaller than minimum tool diameter", op.op_id)>>
            ELSE IF op.op \in {"extrude", "cut"} /\ "distance" \in DOMAIN op.params
               /\ _extract_dimension_value(op.params.distance) > max_cut_depth
            THEN <<Warning("", "Cut depth exceeds machine capability", op.op_id)>>
            ELSE <<>>
    IN ForEach(operations, check)

\* Lines 503-521.
_perform_safety_checks(metadata, operations, settings) ==
    LET estimated_time == Get(metadata, "estimated_duration_seconds", 0)
        max_time == Get(settings, "max_execution_time", DefaultMaxExecutionTime)
        destructive(op) ==
            IF op.op \in {"cut", "shell", "delete_feature"}
            THEN <<Warning("", "Plan contains potentially destructive operation", op.op)>>
            ELSE <<>>
    IN (IF estimated_time > max_time
        THEN <<Warning("", "Estimated execution time exceeds maximum", "")>> ELSE <<>>)
       \o ForEach(operations, destructive)

\* A faulty verdict that never looks at strict_mode.
DetermineStatus_IgnoreStrict(errors, warnings, strict_mode) ==
    [is_valid |-> Len(errors) = 0, validation_errors |-> errors, messages |-> errors \o warnings]

\* Lines 116-130: the verdict and the lists as the call leaves them.
DetermineStatus(errors, warnings, strict_mode) ==
    LET has_errors == Len(errors) > 0
        has_warnings == Len(warnings) > 0
        merge == strict_mode /\ has_warnings
        validation_errors_after == IF merge THEN errors \o warnings ELSE errors
    IN [is_valid |-> ~(has_errors \/ merge),
        validation_errors |-> validation_errors_after,
        messages |-> validation_errors_after \o warnings]

InternalError(text) == Error("Internal sanitization error", text, "")

\* The triple of a call that ended in the catch-all handler (lines 132-135):
\* its third element is self.validation_errors itself, not a copy (live).
Failed(returned_plan, errors, warnings) ==
    [raised |-> FALSE, is_valid |-> FALSE, plan |-> returned_plan, messages |-> errors,
     validation_errors |-> errors, validation_warnings |-> warnings, live |-> TRUE]

\* Lines 116-130: the triple of a call that ran every stage; its third
\* element is a new list.
Returned(sanitized_plan, status, warnings) ==
    [raised |-> FALSE, is_valid |-> status.is_valid, plan |-> sanitized_plan,
     messages |-> status.messages, validation_errors |-> status.validation_errors,
     validation_warnings |-> warnings, live |-> FALSE]

\* Lines 107-130: stages 5 to 7 and the verdict.
ValidateAndReturn(touched, metadata, ops, errors, warnings, strict_mode, settings) ==
    IF GeometricFeasibilityRaises(ops)
    THEN Failed(touched, errors \o <<InternalError("Invalid dimension format")>>, warnings)
    ELSE IF ManufacturingConstraintsRaise(ops)
    THEN Failed(touched, errors \o <<InternalError("Invalid dimension format")>>,
                warnings \o _validate_geometric_feasibility(ops))
    ELSE Returned([touched EXCEPT !.operations = ListOf(ops)],
                  DetermineStatus(errors,
                                  warnings \o _validate_geometric_feasibility(ops)
                                  \o _validate_manufacturing_constraints(ops)
                                  \o _perform_safety_checks(metadata, ops, settings),
                                  strict_mode),
                  warnings \o _validate_geometric_feasibility(ops)
                  \o _validate_manufacturing_constraints(ops)
                  \o _perform_safety_checks(metadata, ops, settings))

\* Lines 95-104: stages 2 to 4.  plan.copy() is shallow, so the normalized
\* metadata is the caller's too.
SanitizeStages(plan, meta, stage3, strict_mode, settings) ==
    ValidateAndReturn([plan EXCEPT !.metadata = meta.metadata], meta.metadata, stage3.ops,
                      stage3.errors \o _validate_operation_dependencies(stage3.ops),
                      meta.warnings \o stage3.warnings, strict_mode, settings)

\* The one message of a structural failure, as the catch-all handler words it.
StructureFailure(plan, structure) ==
    Failed(plan, <<[structure EXCEPT !.where = "Internal sanitization error"]>>, <<>>)

\* Lines 86-135.  The result is [raised |-> TRUE, ...] when the call raises,
\* else the returned triple with the two buckets as the call leaves them.
sanitize_plan(plan, strict_mode, settings, errors_before, warnings_before) ==
    IF ~IsDict(plan)
    THEN [raised |-> TRUE, exception |-> "AttributeError",
          validation_errors |-> errors_before, validation_warnings |-> warnings_before]
    ELSE IF _validate_plan_structure(plan, settings) # NoMessage
    THEN StructureFailure(plan, _validate_plan_structure(plan, settings))
    ELSE SanitizeStages(plan, _sanitize_metadata(plan.metadata, settings),
                        _sanitize_operations(plan.operations.items, 1), strict_mode, settings)

--------------------------------------------------------------------------
(* sanitizer.py: a PlanSanitizer and the calls made on it *)

SanInit ==
    /\ sanitizer_settings \in Settings
    /\ validation_errors = <<>>
    /\ validation_warnings = <<>>
    /\ san_input = [called |-> FALSE]
    /\ san_result = [called |-> FALSE]
    /\ san_calls = 0
    /\ returned_lists = <<>>

\* What the caller of sanitize_plan sees: an exception, or the triple.
Outcome(result) ==
    IF result.raised
    THEN [called |-> TRUE, raised |-> TRUE, exception |-> result.exception]
    ELSE [called |-> TRUE, raised |-> FALSE, is_valid |-> result.is_valid,
          plan |-> result.plan, messages |-> result.messages]

\* The message lists the callers hold.  A list handed out by the catch-all
\* handler is self.validation_errors: lines 89-90 clear it and the stages
\* append to it, so it reads as validation_errors does after every call.
ListsAfterCall(lists, result) ==
    LET held == [k \in 1..Len(lists) |->
                    IF lists[k].live THEN [lists[k] EXCEPT !.now = result.validation_errors]
                    ELSE lists[k]]
    IN IF result.raised THEN held
       ELSE Append(held, [live |-> result.live, returned |-> result.messages,
                          now |-> result.messages])

SanitizePlanResult(plan, strict_mode, result) ==
    /\ san_calls' = san_calls + 1
    /\ san_input' = [called |-> TRUE, plan |-> plan, strict_mode |-> strict_mode]
    /\ validation_errors' = result.validation_errors
    /\ validation_warnings' = result.validation_warnings
    /\ san_result' = Outcome(result)
    /\ returned_lists' = ListsAfterCall(returned_lists, result)
    /\ UNCHANGED <<sanitizer_settings, exec_vars, preview_vars>>

SanitizePlan(plan, strict_mode) ==
    /\ san_calls < MaxCalls
    /\ SanitizePlanResult(plan, strict_mode,
                          sanitize_plan(plan, strict_mode, sanitizer_settings, validation_errors,
                                        validation_warnings))

\* A later call re-submits the plan of the call before it, or submits a plan
\* that has no operations.
PlanWithoutOperations == [plan_id |-> "plan_1", metadata |-> [natural_language_prompt |-> 40]]
NextPlans == IF san_calls = 0 THEN SanPlans ELSE {san_input.plan, PlanWithoutOperations}

SanNext ==
    \E plan \in NextPlans, strict_mode \in BOOLEAN :
        SanitizePlan(plan, strict_mode) /\ UNCHANGED addin_vars

--------------------------------------------------------------------------
(* The specifications: calls on one PlanSanitizer, calls on one PlanExecutor *)

\* main.py line 75 (last_sanitized_plan = None); no handler is running.
AddinInit ==
    /\ last_sanitized_plan = NonePlan
    /\ approved_plans = {}
    /\ handler_pc = "Idle"

SanSpecInit ==
    SanInit /\ ExecInit /\ AddinInit /\ ~FUSION_AVAILABLE /\ document = EmptyDocument
SanSpec == SanSpecInit /\ [][SanNext]_vars

ExecSpecInit ==
    ExecInit /\ SanInit /\ AddinInit /\ sanitizer_settings = [units_default |-> "mm"]
ExecSpec == ExecSpecInit /\ [][ExecNext]_vars

\* Calls of execute_plan and of preview_plan_in_sandbox on one PlanExecutor.
PreviewSpec == ExecSpecInit /\ [][PreviewNext]_vars

--------------------------------------------------------------------------
(* Claims about execute_plan *)

\* The call has returned a failure result built from an operation's failure.
ReturnedFailure ==
    /\ pc = "Idle" /\ exec_result.returned /\ ~exec_result.raised /\ ~exec_result.success
OperationFailed == pending_exception.raised /\ pending_exception.type = "ExecutionError"
ReturnedSuccess ==
    /\ pc = "Idle" /\ exec_result.returned /\ ~exec_result.raised /\ exec_result.success

\* The index of the first (and only) operation whose handler failed.
FailedIndex == Len(execution_results)

HasOpId(j) == "op_id" \in DOMAIN Operations(current_plan)[j]
OpIdOf(j) == Operations(current_plan)[j].op_id
ProducedNode(j) == execution_results[j].success /\ execution_results[j].timeline_node # NoNode

\* What C1 says of the result apart from the mapping: the failure names
\* operation k, operations 1..k were dispatched in order and none after k.
FailFast ==
    LET k == FailedIndex
    IN /\ k >= 1
       /\ ~execution_results[k].success
       /\ \A j \in 1..(k - 1) : execution_results[j].success
       /\ dispatched = [j \in 1..k |-> j]
       /\ exec_result.error_message.who =
             (IF HasOpId(k) THEN OpIdOf(k) ELSE IndexStr(k))
       /\ exec_result.error_message.why # ""

AllOperationsSucceeded ==
    /\ "operations" \in DOMAIN current_plan
    /\ current_plan.operations.kind = "list"
    /\ Len(execution_results) = Len(Operations(current_plan))
    /\ \A j \in 1..Len(execution_results) : execution_results[j].success
SomeOperationFailed == \E j \in 1..Len(execution_results) : ~execution_results[j].success

\* C2: a call that opened the transaction ends it exactly once, by a commit
\* exactly when every operation succeeded and by a rollback when one failed; it
\* never commits after a failure, never does both, and never returns with the
\* transaction open (Idle -> TransactionOpen -> OperationLoop -> Committed or
\* RolledBack -> Idle).
C2_TransactionEndsOnce ==
    /\ pc \in {"Idle", "TransactionOpen", "OperationLoop", "Committed", "RolledBack"}
    /\ pc \in {"TransactionOpen", "OperationLoop"} => transaction_log = <<"enter">>
    /\ pc = "Committed" => transaction_log = <<"enter", "commit">>
    /\ pc = "RolledBack" => transaction_log = <<"enter", "rollback">>
    /\ pc = "Idle" =>
          transaction_log \in {<<>>, <<"enter", "commit">>, <<"enter", "rollback">>}
    /\ Len(transaction_log) = 2 =>
          /\ (transaction_log[2] = "commit") = AllOperationsSucceeded
          /\ SomeOperationFailed => transaction_log[2] = "rollback"
          /\ (pc = "Idle" /\ exec_result.returned /\ ~exec_result.raised) =>
                (exec_result.success = (transaction_log[2] = "commit"))

\* C2's case: a call rolled back after an earlier operation had succeeded, and returned.
C2_Witness ==
    /\ pc = "Idle" /\ transaction_log = <<"enter", "rollback">>
    /\ SomeOperationFailed /\ Len(execution_results) >= 2
    /\ exec_result.returned

\* C3 as claimed: after execute_plan returns success=false the document holds
\* none of the entities created before the failure: it is the document the
\* transaction was entered on.
C3_RollbackRestoresDocument ==
    ReturnedFailure => document = entry_document

\* C4: operations are dispatched strictly in array order, each at most once,
\* whatever their dependencies say, and on success features_created lists the
\* created features in that order.
C4_ArrayOrder ==
    /\ dispatched = [j \in 1..Len(dispatched) |-> j]
    /\ Len(execution_results) = Len(dispatched)
    /\ ReturnedSuccess =>
          LET n == Len(Operations(current_plan))
          IN /\ Len(dispatched) = n
             /\ \A j \in 1..n : execution_results[j].operation_id = OpIdOf(j)
             /\ LET named == SelectSeq(execution_results, LAMBDA r : r.feature_created # "")
                IN exec_result.features_created =
                      [j \in 1..Len(named) |-> named[j].feature_created]

\* C4's case: an operation that names a later operation as its dependency was
\* dispatched before it, and the call succeeded.
C4_Witness ==
    /\ ReturnedSuccess
    /\ \E j \in 1..Len(Operations(current_plan)) :
          /\ "dependencies" \in DOMAIN Operations(current_plan)[j]
          /\ \E m \in (j + 1)..Len(Operations(current_plan)) :
                /\ HasOpId(m)
                /\ OpIdOf(m) = Operations(current_plan)[j].dependencies[1]
    /\ Len(exec_result.features_created) = 3

\* C6 as claimed: execute_plan never raises to its caller, whatever the plan.
C6_ExecutePlanNeverRaises ==
    exec_result.returned => ~exec_result.raised

--------------------------------------------------------------------------
(* Claims about sanitize_plan *)

SanReturned == san_result.called /\ ~san_result.raised

\* The plan has one of the defects the structural check is there to find.
StructurallyBad(plan, settings) ==
    IF {"plan_id", "metadata", "operations"} \ DOMAIN plan # {} THEN TRUE
    ELSE IF plan.operations.kind # "list" THEN TRUE
    ELSE \/ Len(plan.operations.items) = 0
         \/ Len(plan.operations.items) >
               Get(settings, "max_operations_per_plan", DefaultMaxOperations)

\* The call returned for a dict that passed the structural check.
PassedStructure ==
    /\ SanReturned
    /\ IsDict(san_input.plan)
    /\ ~StructurallyBad(san_input.plan, sanitizer_settings)

InputOps == san_input.plan.operations.items
OutputOps == san_result.plan.operations.items
HasErrorMessage ==
    \E m \in 1..Len(san_result.messages) : san_result.messages[m].level = "ERROR"

\* C5 as claimed: sanitize_plan never raises, whatever it is given; for a
\* non-object plan it returns is_valid=false and a non-empty message list.
C5_SanitizeNeverRaises ==
    san_result.called =>
        /\ ~san_result.raised
        /\ ~IsDict(san_input.plan) =>
              (~san_result.is_valid /\ Len(san_result.messages) > 0)

C8_ValidityVerdict ==
    SanReturned =>
        /\ ~san_input.strict_mode => (san_result.is_valid <=> ~HasErrorMessage)
        /\ san_input.strict_mode =>
              /\ validation_warnings # <<>> => ~san_result.is_valid
              /\ san_result.is_valid <=> (~HasErrorMessage /\ validation_warnings = <<>>)
        /\ (/\ PassedStructure
            /\ InputOps = <<SubMinimumHole>>
            /\ DOMAIN san_input.plan.metadata = {"natural_language_prompt"}) =>
              /\ validation_warnings # <<>>
              /\ ~HasErrorMessage
              /\ san_result.is_valid = ~san_input.strict_mode

\* C8's case: the plan with only the sub-minimum hole, having passed in default
\* mode, was sanitized again in strict mode and failed.
C8_Witness ==
    /\ PassedStructure
    /\ san_calls = 2
    /\ InputOps = <<SubMinimumHole>>
    /\ DOMAIN san_input.plan.metadata = {"natural_language_prompt"}
    /\ san_input.strict_mode
    /\ ~san_result.is_valid
    /\ ~HasErrorMessage

\* An ERROR was recorded for the operation at position i of the input list.
ErrorRaisedFor(i) ==
    \E m \in 1..Len(san_result.messages) :
        /\ san_result.messages[m].level = "ERROR"
        /\ san_result.messages[m].where = "Operation " \o IndexStr(i)

\* The positions of the input operations for which no ERROR was raised.
KeptPositions == SelectSeq([i \in 1..Len(InputOps) |-> i], LAMBDA i : ~ErrorRaisedFor(i))

\* The same operation, up to the conversion of its params' values.
SameOperation(a, b) ==
    /\ DOMAIN a = DOMAIN b
    /\ \A f \in DOMAIN a \ {"params"} : a[f] = b[f]
    /\ "params" \in DOMAIN a => DOMAIN a.params = DOMAIN b.params

C10_CanonicalDimensions ==
    PassedStructure =>
        \A j \in 1..Len(OutputOps) :
            \A key \in DOMAIN OutputOps[j].params \cap DimensionKeys :
                OutputOps[j].params[key].kind = "dim" =>
                    /\ OutputOps[j].params[key].unit = "mm"
                    /\ {"original_value", "original_unit"} \subseteq DOMAIN OutputOps[j].params[key]

\* A ValidationWarning was raised for the operation at position i of the input
\* list: the operation was kept as it came, without conversion.
WarningRaisedFor(i) ==
    \E m \in 1..Len(validation_warnings) :
        validation_warnings[m].where = "Operation " \o IndexStr(i)

\* Ten times the millimetres in one unit of length: 1, 10, 1000, 25.4, 304.8.
TenTimesMillimetresPer(u) ==
    CASE u = "mm" -> 10 [] u = "cm" -> 100 [] u = "m" -> 10000 [] u = "in" -> 254
      [] u = "ft" -> 3048

C12_OriginalPreserved ==
    PassedStructure =>
        \A j \in 1..Len(KeptPositions) :
            LET given == InputOps[KeptPositions[j]].params
                got == OutputOps[j].params
            IN ~WarningRaisedFor(KeptPositions[j]) =>
                  \A key \in DOMAIN given \cap DimensionKeys :
                      given[key].kind = "dim" =>
                          /\ got[key].original_value = given[key].value
                          /\ got[key].original_unit = given[key].unit
                          /\ given[key].unit \notin DOMAIN unit_conversions =>
                                /\ got[key].value = given[key].value
                                /\ \E m \in 1..Len(validation_warnings) :
                                      validation_warnings[m].about = given[key].unit

\* The parameters C13 names for an operation type.
SizeKeys(op_type) ==
    CASE op_type = "draw_rectangle" -> {"width", "height", "length"}
      [] op_type \in {"draw_circle", "create_hole"} -> {"diameter", "radius"}
      [] op_type \in {"extrude", "cut"} -> {"distance"}
      [] OTHER -> {}

\* The operation gives one of those parameters a zero or negative value.
HasNonPositiveSize(operation) ==
    /\ {"op", "params"} \subseteq DOMAIN operation
    /\ \E key \in DOMAIN operation.params \cap SizeKeys(operation.op) :
          /\ "value" \in DOMAIN operation.params[key]
          /\ operation.params[key].value <= 0

\* C13 as claimed: when a width/height/length of a draw_rectangle, a
\* diameter/radius of a draw_circle or create_hole, or a distance of an
\* extrude/cut is zero or negative, an ERROR-level message is recorded and
\* is_valid is false, whatever the operation's other parameters are.
C13_NonPositiveRejected ==
    (/\ SanReturned
     /\ {"operations"} \subseteq DOMAIN san_input.plan
     /\ san_input.plan.operations.kind = "list"
     /\ \E i \in 1..Len(InputOps) : HasNonPositiveSize(InputOps[i])) =>
        /\ HasErrorMessage
        /\ ~san_result.is_valid

\* The width, height or length, expressed in millimetres, exceeds max_feature_size.
ExceedsFeatureSize(operation) ==
    /\ {"op", "params"} \subseteq DOMAIN operation
    /\ operation.op = "draw_rectangle"
    /\ \E key \in DOMAIN operation.params \cap {"width", "height", "length"} :
          /\ operation.params[key].kind = "dim"
          /\ operation.params[key].unit \in {"mm", "cm", "m", "in", "ft"}
          /\ operation.params[key].value * TenTimesMillimetresPer(operation.params[key].unit)
                > max_feature_size * 10

\* C14 as claimed: a draw_rectangle whose width, height or length exceeds
\* max_feature_size once expressed in millimetres is rejected with an ERROR and
\* is_valid=false, whatever unit the dimension was given in.
C14_FeatureSizeInMillimetres ==
    (/\ SanReturned
     /\ {"operations"} \subseteq DOMAIN san_input.plan
     /\ san_input.plan.operations.kind = "list"
     /\ \E i \in 1..Len(InputOps) : ExceedsFeatureSize(InputOps[i])) =>
        /\ HasErrorMessage
        /\ ~san_result.is_valid

\* The op_ids of the input plan, and the dependency ids an input operation
\* declares that are none of them.
InputOpIds == {InputOps[i].op_id : i \in {k \in 1..Len(InputOps) : "op_id" \in DOMAIN InputOps[k]}}
MissingDependencies(operation) ==
    IF "dependencies" \in DOMAIN operation
    THEN {operation.dependencies[k] : k \in 1..Len(operation.dependencies)} \ InputOpIds
    ELSE {}

\* C15 as claimed, for plans that pass the structural check: when an operation
\* of the input plan declares a dependency id that is the op_id of no operation
\* of the plan, is_valid is false and some message names the missing id.
C15_MissingDependencyNamed ==
    PassedStructure =>
        \A i \in 1..Len(InputOps) :
            \A missing \in MissingDependencies(InputOps[i]) :
                /\ ~san_result.is_valid
                /\ \E m \in 1..Len(san_result.messages) :
                      san_result.messages[m].about = missing

--------------------------------------------------------------------------
(* Claims about preview_plan_in_sandbox *)

\* C16: a preview_plan_in_sandbox call, on any plan and whether it succeeds,
\* fails or raises, leaves the document and the executor's execution state
\* (current plan, timeline_mapping, created_features, last sketch and profile)
\* as they were, so the execute_plan calls after it start from the state they
\* would have started from without it.
C16_PreviewLeavesStateUnchanged ==
    [][preview_result' # preview_result =>
          UNCHANGED <<document, current_plan, timeline_mapping, created_features,
                      last_sketch, last_profile, exec_result, calls, pc>>]_vars

\* C16's case: after a first execute_plan had filled the timeline mapping a
\* preview failed, and the execute_plan after it succeeded all the same.
C16_Witness ==
    /\ preview_result.returned /\ ~preview_result.raised /\ ~preview_result.success
    /\ preview_result.after_calls = 1
    /\ calls = 2
    /\ ReturnedSuccess
    /\ Len(exec_result.features_created) >= 2

--------------------------------------------------------------------------
(* Claims about sanitize_plan: well-formed plans, patterns *)

\* Every dimension of the operation is given in mm, is positive and is within
\* the machine profile's limits.
DimensionsInRange(operation) ==
    \A key \in DOMAIN operation.params \cap DimensionKeys :
        LET dimension == operation.params[key]
        IN /\ dimension.kind = "dim" /\ dimension.unit = "mm"
           /\ dimension.value > 0
           /\ dimension.value <= max_feature_size
           /\ key = "diameter" => dimension.value >= min_tool_diameter
           /\ key = "distance" => dimension.value <= max_cut_depth
           /\ key = "radius" => dimension.value <= LargeFilletRadius
           /\ key = "thickness" => dimension.value >= min_wall_thickness

\* The target_ref of operation i is the name an earlier create_sketch gave its sketch.
NamesEarlierSketch(operations, i) ==
    \E k \in 1..(i - 1) :
        /\ operations[k].op = "create_sketch"
        /\ "name" \in DOMAIN operations[k].params
        /\ operations[k].params.name = operations[i].target_ref

\* The plan is the kind of plan C17 describes.
WellFormedPlan(plan, settings) ==
    /\ IsDict(plan)
    /\ ~StructurallyBad(plan, settings)
    /\ DOMAIN plan.metadata = {"natural_language_prompt"}
    /\ plan.metadata.natural_language_prompt <= MaxPromptLength
    /\ LET operations == plan.operations.items
       IN \A i \in 1..Len(operations) :
             /\ {"op_id", "op", "params"} \subseteq DOMAIN operations[i]
             /\ MatchesOpIdPattern(operations[i].op_id)
             /\ operations[i].op \in {"create_sketch", "draw_rectangle", "draw_circle", "extrude",
                                      "create_hole", "fillet"}
             /\ DimensionsInRange(operations[i])
             /\ "dependencies" \in DOMAIN operations[i] =>
                   \A k \in 1..Len(operations[i].dependencies) :
                       \E n \in 1..Len(operations) :
                           operations[n].op_id = operations[i].dependencies[k]
             /\ "target_ref" \in DOMAIN operations[i] => NamesEarlierSketch(operations, i)

\* C17 as claimed: a structurally valid plan with well-formed op ids, known op
\* types, positive in-range mm dimensions and satisfied dependencies, whose
\* draw operation's target_ref is the name an earlier create_sketch of the plan
\* gave its sketch, sanitizes to is_valid=true with an empty message list and
\* all its operations retained.
C17_WellFormedPlanIsClean ==
    (san_result.called /\ WellFormedPlan(san_input.plan, sanitizer_settings)) =>
        /\ ~san_result.raised
        /\ san_result.is_valid
        /\ san_result.messages = <<>>
        /\ Len(OutputOps) = Len(InputOps)

\* An ERROR about parameter key was recorded for the operation at position i.
ErrorAbout(i, key) ==
    \E m \in 1..Len(san_result.messages) :
        /\ san_result.messages[m].level = "ERROR"
        /\ san_result.messages[m].where = "Operation " \o IndexStr(i)
        /\ san_result.messages[m].about = key

\* The pattern operation's count key holds no positive integer.
BadCount(operation, key) ==
    /\ key \in DOMAIN operation.params
    /\ operation.params[key].kind # "int" \/ operation.params[key].value < 1

\* The pattern operation's distance key holds a value that is not positive.
BadDistance(operation, key) ==
    /\ key \in DOMAIN operation.params
    /\ "value" \in DOMAIN operation.params[key]
    /\ operation.params[key].value <= 0

\* C18 as claimed: when a pattern operation has both a count that is no
\* positive integer and a distance that is not positive, the messages hold an
\* error for the count and a separate error for the distance.
C18_AllViolationsReported ==
    PassedStructure =>
        \A i \in 1..Len(InputOps) :
            ({"op_id", "op", "params"} \subseteq DOMAIN InputOps[i]
                /\ MatchesOpIdPattern(InputOps[i].op_id)
                /\ InputOps[i].op \in {"pattern_linear", "pattern_circular"}) =>
                \A count \in {"count_1", "count_2", "count"},
                   distance \in {"distance_1", "distance_2", "spacing"} :
                    (BadCount(InputOps[i], count) /\ BadDistance(InputOps[i], distance)) =>
                        ErrorAbout(i, count) /\ ErrorAbout(i, distance)

--------------------------------------------------------------------------
(* main.py: a plan is sanitized, and executed when it was returned valid   *)

\* The operations of the plans the add-in receives: a sketch, a rectangle on
\* it, an extrusion, a revolve and a pattern the sanitizer rejects.
PipelineOperations == {
    [op_id |-> "op_1", op |-> "create_sketch", params |-> [plane |-> "XY", name |-> "base_sketch"]],
    [op_id |-> "op_5", op |-> "extrude",
     params |-> [distance |-> Dim(500, "mm"), direction |-> "positive"]],
    NamedSketchRectangle,
    BadPattern,
    Revolve
}

PipelinePlans ==
    {[plan_id |-> "plan_1", metadata |-> [natural_language_prompt |-> 40],
      operations |-> ListOf(s)] : s \in SeqsUpTo(PipelineOperations, MaxLen)}

\* is_valid, sanitized_plan, messages = sanitizer.sanitize_plan(candidate)
PipelineSanitize ==
    /\ pc = "Idle"
    /\ calls = 0
    /\ \E plan \in PipelinePlans, strict_mode \in BOOLEAN : SanitizePlan(plan, strict_mode)
    /\ UNCHANGED addin_vars

\* if not is_valid: return; exec_result = executor.execute_plan(sanitized_plan)
PipelineExecute ==
    /\ san_result.called
    /\ IF san_result.raised THEN FALSE ELSE san_result.is_valid
    /\ ExecutePlanEnter(san_result.plan)
    /\ UNCHANGED <<san_vars, preview_vars, addin_vars>>

PipelineNext ==
    \/ PipelineSanitize
    \/ PipelineExecute
    \/ ExecuteOperationsStart /\ UNCHANGED <<san_vars, preview_vars, addin_vars>>
    \/ ExecuteOperation /\ UNCHANGED <<san_vars, preview_vars, addin_vars>>
    \/ TransactionCommit /\ UNCHANGED <<san_vars, preview_vars, addin_vars>>
    \/ ExecutePlanReturn /\ UNCHANGED <<san_vars, preview_vars, addin_vars>>

PipelineSpec == ExecSpecInit /\ [][PipelineNext]_vars

--------------------------------------------------------------------------
(* Claims about the sanitizer and the executor together *)

SanitizedValid ==
    /\ san_result.called
    /\ IF san_result.raised THEN FALSE ELSE san_result.is_valid

\* C19: an execution of a plan that sanitize_plan returned with is_valid=true
\* never fails with 'Unsupported operation type'.
C19_ValidPlanNeverUnsupported ==
    (SanitizedValid /\ ReturnedFailure /\ current_plan = san_result.plan)
        => exec_result.error_message.why # "Unsupported operation type"

--------------------------------------------------------------------------
(* Claims about the handlers' resolution of a sketch or a profile *)

\* The document holds a sketch (for the draw operations) or a closed
\* profile (for extrude).
HoldsSketch(doc) == Len(doc.sketches) > 0
HoldsProfile(doc) == \E n \in 1..Len(doc.sketches) : doc.sketches[n].profiles > 0

NoSketchErrors == {"No target sketch available for rectangle",
                   "No target sketch available for circle",
                   "No target sketch available for polygon"}

\* C20: a handler that needs a sketch or a profile raises its ExecutionError
\* only when the document holds no compatible entity at all: after the
\* target_ref and the registry, the document's most recent one is taken.
C20_RaisesOnlyWithoutCompatibleEntity ==
    (pc = "RolledBack" /\ OperationFailed) =>
        /\ pending_exception.why \in NoSketchErrors => ~HoldsSketch(document)
        /\ pending_exception.why = "No profile available for extrude" => ~HoldsProfile(document)

--------------------------------------------------------------------------
(* Claims about sanitize_plan: directions, pattern types, zero distances *)

WellFormedOperation(operation) ==
    /\ {"op_id", "op", "params"} \subseteq DOMAIN operation
    /\ MatchesOpIdPattern(operation.op_id)

\* C21 as claimed: in a plan returned with is_valid=true every extrude or cut
\* that has a direction has it in {positive, negative, symmetric}, whatever
\* its distance is.
C21_ValidPlanHasValidDirections ==
    (PassedStructure /\ san_result.is_valid) =>
        \A j \in 1..Len(OutputOps) :
            (/\ {"op", "params"} \subseteq DOMAIN OutputOps[j]
             /\ OutputOps[j].op \in {"extrude", "cut"}
             /\ "direction" \in DOMAIN OutputOps[j].params) =>
                OutputOps[j].params.direction \in {"positive", "negative", "symmetric"}

PatternTypes == {"pattern_linear", "pattern_circular", "pattern_rectangular", "pattern_path"}

\* C22 as claimed: for each of the four pattern types, a count that is no
\* positive integer or a distance that is not positive yields an ERROR for
\* the operation and is_valid=false.
C22_PatternViolationsRejected ==
    PassedStructure =>
        \A i \in 1..Len(InputOps) :
            (/\ WellFormedOperation(InputOps[i])
             /\ InputOps[i].op \in PatternTypes
             /\ \/ \E count \in {"count_1", "count_2", "count"} : BadCount(InputOps[i], count)
                \/ \E distance \in {"distance_1", "distance_2", "spacing"} :
                      BadDistance(InputOps[i], distance)) =>
                ErrorRaisedFor(i) /\ ~san_result.is_valid

\* C23 as claimed: in default mode a plan whose sole issue is an extrude of
\* distance zero is returned with is_valid=true, without an ERROR, and with
\* that operation in the sanitized list.
C23_ZeroExtrudeWarnsOnly ==
    (/\ PassedStructure
     /\ ~san_input.strict_mode
     /\ InputOps = <<ZeroExtrude>>
     /\ DOMAIN san_input.plan.metadata = {"natural_language_prompt"}) =>
        /\ san_result.is_valid
        /\ ~HasErrorMessage
        /\ Len(OutputOps) = 1
        /\ OutputOps[1].op_id = "op_16"

--------------------------------------------------------------------------
(* Claims about sanitize_plan: the order of the messages *)

\* The pipeline stage that records the message (an internal error ends the
\* call at stage 1, 5 or 6 and is the last message of its list).
StageOf(message) ==
    CASE message.where = "Internal sanitization error" -> 6
      [] message.text \in {"Unknown unit, defaulting to mm",
                           "Invalid confidence score, clamping to [0,1]",
                           "Prompt truncated to 2000 characters"} -> 2
      [] message.text = "depends on non-existent operation" -> 4
      [] message.text \in {"Zero-distance extrude in operation",
                           "Very large fillet radius in operation"} -> 5
      [] message.text \in {"Hole diameter smaller than minimum tool diameter",
                           "Cut depth exceeds machine capability"} -> 6
      [] message.text \in {"Estimated execution time exceeds maximum",
                           "Plan contains potentially destructive operation"} -> 7
      [] OTHER -> 3

\* C24 as claimed: in the returned list no message of an earlier stage comes
\* after a message of a later stage.
C24_MessagesInStageOrder ==
    SanReturned =>
        \A a, b \in 1..Len(san_result.messages) :
            a < b => StageOf(san_result.messages[a]) <= StageOf(san_result.messages[b])

--------------------------------------------------------------------------
(* Claims about sanitize_plan: strict mode, results of successive calls *)

\* The call ran every stage: it did not end in the catch-all handler.
RanEveryStage ==
    /\ SanReturned
    /\ \A m \in 1..Len(san_result.messages) :
          san_result.messages[m].where # "Internal sanitization error"

\* How many times the message occurs in the list.
Occurrences(message, list) == Cardinality({m \in 1..Len(list) : list[m] = message})

ErrorsRecorded == Len(SelectSeq(validation_errors, LAMBDA e : e.level = "ERROR"))

\* C27 as claimed: with strict_mode=true the returned list holds each recorded
\* warning as often as it was recorded, and as many messages as errors plus
\* warnings were recorded.
C27_StrictWarningsOnce ==
    (RanEveryStage /\ san_input.strict_mode) =>
        /\ \A w \in 1..Len(validation_warnings) :
              Occurrences(validation_warnings[w], san_result.messages)
                  = Occurrences(validation_warnings[w], validation_warnings)
        /\ Len(san_result.messages) = ErrorsRecorded + Len(validation_warnings)

Recorded(messages) == {messages[m] : m \in 1..Len(messages)}

\* C28 as claimed: a message list that a sanitize_plan call returned reads
\* the same after every later call on the PlanSanitizer, and the list of a
\* call holds only messages recorded during that call.
C28_ReturnedMessagesAreStable ==
    /\ \A k \in 1..Len(returned_lists) : returned_lists[k].now = returned_lists[k].returned
    /\ SanReturned =>
          Recorded(san_result.messages)
              \subseteq (Recorded(validation_errors) \cup Recorded(validation_warnings))

--------------------------------------------------------------------------
(* main.py: the palette callbacks and the dialog's button handlers.  A     *)
(* handler that sanitizes and then executes takes two steps; handler_pc    *)
(* says which step is due.                                                 *)

\* _build_offline_plan('cube'), less the parameters nothing reads.
_build_offline_plan ==
    [plan_id |-> "offline_cube_demo", metadata |-> [units |-> "mm"],
     operations |-> ListOf(<<
        [op_id |-> "op_1", op |-> "create_sketch",
         params |-> [plane |-> "XY", name |-> "CoPilot_cube_sketch"]],
        [op_id |-> "op_2", op |-> "draw_rectangle",
         params |-> [width |-> Dim(2000, "mm"), height |-> Dim(2000, "mm")]],
        [op_id |-> "op_3", op |-> "extrude", params |-> [distance |-> Dim(2000, "mm")]]>>)]

\* _offline_canned_response('cube'): bare numbers for the sizes.
_offline_canned_response ==
    [plan_id |-> "offline_cube_demo", metadata |-> [units |-> "mm"],
     operations |-> ListOf(<<
        [op_id |-> "op_1", op |-> "create_sketch", params |-> [plane |-> "XY", name |-> "cube_sketch"]],
        [op_id |-> "op_2", op |-> "draw_rectangle",
         params |-> [width |-> Num(2000), height |-> Num(2000)]],
        [op_id |-> "op_3", op |-> "extrude", params |-> [distance |-> Num(2000)]]>>)]

\* What send_to_llm may answer with: a plan the sanitizer accepts and one it
\* rejects (None, its answer on failure, is the handlers' offline branch).
LlmPlans ==
    {[plan_id |-> "plan_1", metadata |-> [natural_language_prompt |-> 40],
      operations |-> ListOf(<<
         [op_id |-> "op_1", op |-> "create_sketch",
          params |-> [plane |-> "XY", name |-> "base_sketch"]],
         [op_id |-> "op_5", op |-> "extrude",
          params |-> [distance |-> Dim(500, "mm"), direction |-> "positive"]]>>)],
     [plan_id |-> "plan_1", metadata |-> [natural_language_prompt |-> 40],
      operations |-> ListOf(<<BadPattern>>)]}

\* data.get('plan') of a palette event: nothing, a plan as it was generated,
\* or the plan the palette was last shown.
PalettePayloads == {NonePlan, last_sanitized_plan, _build_offline_plan} \cup LlmPlans

Truthy(plan) == plan # NonePlan

Approve(result) ==
    IF result.is_valid THEN approved_plans \cup {result.plan} ELSE approved_plans

\* One sanitizer.sanitize_plan(plan) of a handler: the plan is kept in
\* last_sanitized_plan when keep says so.
HandlerSanitize(plan, result, keep, then) ==
    /\ pc = "Idle"
    /\ san_calls < MaxCalls
    /\ SanitizePlanResult(plan, FALSE, result)
    /\ approved_plans' = Approve(result)
    /\ last_sanitized_plan' = IF keep THEN result.plan ELSE last_sanitized_plan
    /\ handler_pc' = then

SanitizerAnswer(plan) ==
    sanitize_plan(plan, FALSE, sanitizer_settings, validation_errors, validation_warnings)

\* palette_parse_callback: the plan is kept only when it is valid.
PaletteParse(result) ==
    /\ handler_pc = "Idle"
    /\ HandlerSanitize(_build_offline_plan, result, result.is_valid, "Idle")

\* handle_parse_button, lines 1494-1512: a plan came from send_to_llm; when
\* it is not valid the handler goes on to the offline plan.
ParseButtonLlm(plan, result) ==
    /\ handler_pc = "Idle"
    /\ HandlerSanitize(plan, result, result.is_valid,
                       IF result.is_valid THEN "Idle" ELSE "OfflineFallback")

\* handle_parse_button, lines 1514-1530: the offline plan is sanitized and
\* the returned plan is kept without a look at is_valid.
ParseButtonOffline(result) ==
    /\ handler_pc \in {"Idle", "OfflineFallback"}
    /\ HandlerSanitize(_offline_canned_response, result, TRUE, "Idle")

\* handle_apply_button lines 1596-1630 and palette_apply_callback lines
\* 201-210: no plan is at hand, one is generated and sanitized; a valid one
\* is kept and goes on to execute_plan.
ApplyGenerate(candidate, result) ==
    /\ handler_pc = "Idle"
    /\ ~Truthy(last_sanitized_plan)
    /\ HandlerSanitize(candidate, result, result.is_valid,
                       IF result.is_valid THEN "Execute" ELSE "Idle")

\* executor.execute_plan(plan) of handle_apply_button (line 1640), and of
\* palette_apply_callback (line 216) for an event without a plan.
ApplyExecute ==
    /\ handler_pc \in {"Idle", "Execute"}
    /\ Truthy(last_sanitized_plan)
    /\ ExecutePlanEnter(last_sanitized_plan)
    /\ handler_pc' = "Idle"
    /\ UNCHANGED <<san_vars, preview_vars, last_sanitized_plan, approved_plans>>

\* palette_apply_callback, lines 200 and 216: use_plan = plan or
\* last_sanitized_plan; executor.execute_plan(use_plan).
PaletteApply(payload) ==
    /\ handler_pc = "Idle"
    /\ Truthy(payload)
    /\ ExecutePlanEnter(payload)
    /\ UNCHANGED <<san_vars, preview_vars, addin_vars>>

\* palette_preview_callback: executor.preview_plan_in_sandbox(use_plan).
PalettePreview(payload) ==
    /\ handler_pc = "Idle"
    /\ Truthy(IF Truthy(payload) THEN payload ELSE last_sanitized_plan)
    /\ PreviewPlanInSandbox(IF Truthy(payload) THEN payload ELSE last_sanitized_plan)
    /\ UNCHANGED addin_vars

AddinNext ==
    \/ PaletteParse(SanitizerAnswer(_build_offline_plan))
    \/ \E plan \in LlmPlans : ParseButtonLlm(plan, SanitizerAnswer(plan))
    \/ ParseButtonOffline(SanitizerAnswer(_offline_canned_response))
    \/ \E candidate \in LlmPlans \cup {_offline_canned_response} :
          ApplyGenerate(candidate, SanitizerAnswer(candidate))
    \/ ApplyExecute
    \/ \E payload \in PalettePayloads : PaletteApply(payload)
    \/ \E payload \in PalettePayloads : PalettePreview(payload)
    \/ handler_pc = "Idle" /\ ExecuteOperationsStart /\ UNCHANGED <<san_vars, preview_vars, addin_vars>>
    \/ handler_pc = "Idle" /\ ExecuteOperation /\ UNCHANGED <<san_vars, preview_vars, addin_vars>>
    \/ handler_pc = "Idle" /\ TransactionCommit /\ UNCHANGED <<san_vars, preview_vars, addin_vars>>
    \/ handler_pc = "Idle" /\ ExecutePlanReturn /\ UNCHANGED <<san_vars, preview_vars, addin_vars>>

AddinSpecInit == ExecInit /\ SanInit /\ AddinInit
AddinSpec == AddinSpecInit /\ [][AddinNext]_vars

--------------------------------------------------------------------------
(* Claims about the add-in's handlers *)

\* C25 as claimed: every plan execute_plan is invoked with was returned by a
\* sanitize_plan call with is_valid=true.
C25_OnlySanitizedPlansExecuted ==
    IsDict(current_plan) => current_plan \in approved_plans

--------------------------------------------------------------------------
(* Claims about execute_plan: the registry and the results across calls *)

\* C26 as claimed: the registry of the last created sketch and profile is
\* empty when an execute_plan call starts, so nothing binds to an entity of
\* an earlier call.
C26_RegistryEmptyAtCallStart ==
    pc = "TransactionOpen" => (last_sketch = 0 /\ ~last_profile.set)

\* C30 as claimed: a rectangle whose target_ref is the name the plan gave its
\* first sketch is drawn on that sketch, although the plan created a second
\* sketch under another name in between.
C30_ReferenceResolvesToNamedSketch ==
    LET ops == Operations(current_plan)
    IN (/\ FUSION_AVAILABLE
        /\ ReturnedSuccess
        /\ Len(ops) = 3
        /\ ops[1].op = "create_sketch" /\ "name" \in DOMAIN ops[1].params
        /\ ops[2].op = "create_sketch" /\ "name" \in DOMAIN ops[2].params
        /\ ops[2].params.name # ops[1].params.name
        /\ ops[3].op = "draw_rectangle" /\ "target_ref" \in DOMAIN ops[3]
        /\ ops[3].target_ref = ops[1].params.name) =>
            /\ last_profile.set
            /\ last_profile.sketch = Len(entry_document.sketches) + 1

--------------------------------------------------------------------------
(* C29: the results of execute_plan calls on one executor *)

\* The features the successful operations of one call produced, in order.
FeaturesOf(results) ==
    LET made == SelectSeq(results, LAMBDA r : r.success /\ r.feature_created # "")
    IN [i \in 1..Len(made) |-> made[i].feature_created]

\* The collections hold exactly what the operations of that call recorded.
OnlyFromCall(collections, results) ==
    LET mapping == IF "features_created" \in DOMAIN collections
                   THEN collections.timeline_mapping
                   ELSE collections.partial_timeline_mapping
        recorded == {i \in 1..Len(results) :
                        results[i].success /\ results[i].timeline_node # NoNode}
    IN /\ DOMAIN mapping = {results[i].operation_id : i \in recorded}
       /\ \A key \in DOMAIN mapping :
            \E i \in recorded : /\ results[i].operation_id = key
                                /\ results[i].timeline_node = mapping[key]
       /\ "features_created" \in DOMAIN collections =>
            collections.features_created = FeaturesOf(results)

\* C29: the timeline_mapping (or partial_timeline_mapping) and features_created
\* of every result returned by execute_plan hold only the entries produced
\* during that call, and a result already returned reads the same after any
\* later execute_plan call on the same executor.
C29_ResultsIsolatedAcrossCalls ==
    \A k \in 1..Len(returned_results) :
        /\ returned_results[k].now = returned_results[k].returned
        /\ OnlyFromCall(returned_results[k].returned, returned_results[k].execution_results)

\* Two calls have returned, each with features and timeline nodes of its own.
C29_Witness ==
    /\ Len(returned_results) = 2
    /\ \A k \in 1..2 :
        /\ "features_created" \in DOMAIN returned_results[k].returned
        /\ returned_results[k].returned.features_created # <<>>
        /\ DOMAIN returned_results[k].returned.timeline_mapping # {}

\* Some call has returned a failure result after an operation had recorded a node.
C29_PartialWitness ==
    \E k \in 1..Len(returned_results) :
        /\ "partial_timeline_mapping" \in DOMAIN returned_results[k].returned
        /\ DOMAIN returned_results[k].returned.partial_timeline_mapping # {}

==========================================================================
